---- MODULE Spec2Model ----
(***************************************************************************)
(* A model of the MTU journal application (mtu/src/App.js and              *)
(* mtu/src/Backend/custom.js): the sentence-level synonym pipeline         *)
(* (tokenizer, provider adapter and its response parsing, the process-wide *)
(* SYNONYMS_CACHE, the SynonymText component) and the session operations   *)
(* that save and restore the cache.                                        *)
(*                                                                         *)
(* JavaScript strings are TLA+ strings; a character is a string of length  *)
(* one.  A JavaScript value is a record [t |-> type, v |-> payload].       *)
(***************************************************************************)
EXTENDS Integers, Sequences, FiniteSets, TLC

VARIABLES
    tok,       \* the tokenizer under test: [text, tokens, done]
    adapter,   \* one provider lookup: [pc, outcome, requests, ret, app]
    hover,     \* one SynonymText under the pointer: its props and hover state
    app,       \* the useState values of App, App.js lines 491-505
    SYNONYMS_CACHE,  \* the module-level Map, App.js line 8
    inst,      \* the SynonymText instances: their props, state and ref
    store,     \* the notebooks collection of the Session Store
    load,      \* the loadSession call in progress
    list,      \* the loadAvailableNotebooks call in progress
    loads,     \* how many times loadSession has been called
    last,      \* what the last step did
    del,       \* the deleteNotebook call in progress
    chat       \* the handleSubmit call in progress

componentVars == <<tok, adapter, hover>>
appVars == <<app, SYNONYMS_CACHE, inst, store, load, list, loads, last, del, chat>>
vars == <<tok, adapter, hover, app, SYNONYMS_CACHE, inst, store, load, list, loads, last,
          del, chat>>

-----------------------------------------------------------------------------
(* Strings *)

Ch(s, i) == SubSeq(s, i, i)

\* The characters matched by \s that occur in the modelled texts.
WhitespaceChars == {" ", "\n", "\t"}

\* The class [.!?] of the sentence split, App.js line 138.
SentenceDelims == {".", "!", "?"}

\* The class [.,!?;:"()] stripped from a word, App.js lines 96 and 150.
PunctChars == {".", ",", "!", "?", ";", ":", "\"", "(", ")"}

UpperChars == {"A", "B", "C", "D", "O", "P", "R", "S", "T", "W"}

LowerChar(c) ==
    CASE c = "A" -> "a"
      [] c = "B" -> "b"
      [] c = "C" -> "c"
      [] c = "D" -> "d"
      [] c = "O" -> "o"
      [] c = "P" -> "p"
      [] c = "R" -> "r"
      [] c = "S" -> "s"
      [] c = "T" -> "t"
      [] c = "W" -> "w"
      [] OTHER -> c

RECURSIVE ToLowerCase(_)
\* String.prototype.toLowerCase
ToLowerCase(s) ==
    IF s = "" THEN "" ELSE LowerChar(Ch(s, 1)) \o ToLowerCase(SubSeq(s, 2, Len(s)))

\* String.prototype.trim
Trim(s) ==
    LET keep == {i \in 1..Len(s) : Ch(s, i) \notin WhitespaceChars}
    IN IF keep = {} THEN ""
       ELSE SubSeq(s, CHOOSE i \in keep : \A j \in keep : i <= j,
                      CHOOSE i \in keep : \A j \in keep : i >= j)

DropPunct(c) == IF c \in PunctChars THEN "" ELSE c

RECURSIVE StripPunct(_)
\* word.replace(/[.,!?;:"()]/g, '')
StripPunct(s) ==
    IF s = "" THEN "" ELSE DropPunct(Ch(s, 1)) \o StripPunct(SubSeq(s, 2, Len(s)))

\* The normalized form of a word token: App.js line 150 strips and then
\* lowercases, line 96 lowercases and then strips.
CleanWordRender(word) == ToLowerCase(StripPunct(word))
CleanWordHover(word) == StripPunct(ToLowerCase(word))

\* A cache key taken from the sentence as typed.
CacheKeyAsTyped(sentence) == sentence

\* The cache key of a sentence, App.js lines 12 and 66.
CacheKey(sentence) == Trim(ToLowerCase(sentence))

RECURSIVE RunEnd(_, _, _)
\* The last index of the run of characters of class D that starts at i.
RunEnd(s, D, i) ==
    IF i < Len(s) /\ Ch(s, i + 1) \in D THEN RunEnd(s, D, i + 1) ELSE i

RECURSIVE SplitScan(_, _, _, _, _)
SplitScan(s, D, i, cur, out) ==
    IF i > Len(s) THEN Append(out, cur)
    ELSE IF Ch(s, i) \in D
         THEN LET j == RunEnd(s, D, i)
              IN SplitScan(s, D, j + 1, "", out \o <<cur, SubSeq(s, i, j)>>)
         ELSE SplitScan(s, D, i + 1, cur \o Ch(s, i), out)

\* A split that loses its delimiters, as s.split(/[D]+/) would.
RECURSIVE SplitDropScan(_, _, _, _, _)
SplitDropScan(s, D, i, cur, out) ==
    IF i > Len(s) THEN Append(out, cur)
    ELSE IF Ch(s, i) \in D
         THEN SplitDropScan(s, D, RunEnd(s, D, i) + 1, "", Append(out, cur))
         ELSE SplitDropScan(s, D, i + 1, cur \o Ch(s, i), out)

SplitKeepingLossy(s, D) == SplitDropScan(s, D, 1, "", <<>>)

\* s.split(/([D]+)/): the pieces between the runs of D, and the runs themselves
\* (the capture group), in order.  A run at either end leaves an empty piece.
SplitKeeping(s, D) == SplitScan(s, D, 1, "", <<>>)

\* /^[D]+$/.test(s)
AllIn(s, D) == Len(s) > 0 /\ \A i \in 1..Len(s) : Ch(s, i) \in D

RECURSIVE ConcatAll(_)
ConcatAll(ss) == IF ss = <<>> THEN "" ELSE Head(ss) \o ConcatAll(Tail(ss))


-----------------------------------------------------------------------------
(* JavaScript values and objects *)

Undefined == [t |-> "undefined", v |-> <<>>]
Null == [t |-> "null", v |-> <<>>]
ArrayOf(xs) == [t |-> "array", v |-> xs]
StringOf(str) == [t |-> "string", v |-> str]
\* A function object, such as Object.prototype.constructor.  Object.prototype
\* itself, the value of __proto__, is like it here: truthy and no array.
NativeFunction == [t |-> "function", v |-> <<>>]

\* ToBoolean: objects (arrays, also empty ones, functions, dates) are truthy.
Truthy(val) ==
    \/ val.t \in {"array", "function", "date"}
    \/ val.t = "string" /\ val.v # ""

\* The property names a plain object inherits from Object.prototype that
\* survive toLowerCase.
ObjectPrototypeKeys == {"constructor", "__proto__"}

EmptyObject == [k \in {} |-> Undefined]

\* obj[key] on a plain object: an own property, else the prototype chain.
GetProp(obj, key) ==
    IF key \in DOMAIN obj THEN obj[key]
    ELSE IF key \in ObjectPrototypeKeys THEN NativeFunction
    ELSE Undefined

-----------------------------------------------------------------------------
(* The values of the component state machines before anything has run *)

TokIdle == [text |-> "", tokens |-> <<>>, done |-> FALSE]

\* useState(null), useState([]) and useState({ x: 0, y: 0 }), App.js lines 57-59.
NoHover ==
    [hoveredWord |-> Null, synonyms |-> ArrayOf(<<>>),
     tooltipPosition |-> [x |-> 0, y |-> 0], threw |-> FALSE]

NoEvent ==
    [rectLeft |-> 0, rectWidth |-> 0, rectTop |-> 0,
     parentLeft |-> 0, parentTop |-> 0, viewportWidth |-> 0]

HoverIdle ==
    [enableSynonyms |-> FALSE, sentenceSynonyms |-> EmptyObject, text |-> "",
     viewportWidth |-> 0, parentLeft |-> 0, word |-> "", e |-> NoEvent, st |-> NoHover]

ServiceError == [kind |-> "error", text |-> <<>>]

NoReturn == [threw |-> FALSE, value |-> EmptyObject]

AdapterIdle ==
    [pc |-> "idle", outcome |-> ServiceError, requests |-> 0, ret |-> NoReturn,
     app |-> [threw |-> FALSE, value |-> EmptyObject, cached |-> FALSE]]

\* currentSessionId when there is no session: null.
NullId == "null"

\* useState initial values, App.js lines 491-505, and the ref of line 509.
\* availableNotebooks is kept as the set of the listed notebooks' ids.
AppStart ==
    [leftEntries |-> <<>>, rightEntries |-> <<>>, currentInput |-> "",
     conversationHistory |-> <<>>, isLoading |-> FALSE,
     currentSessionId |-> NullId, showNotebooksList |-> FALSE,
     availableNotebooks |-> {}, isLoadingNotebooks |-> FALSE,
     isSaving |-> FALSE, saveConfirmed |-> FALSE, lastUserInput |-> "",
     improvedSentence |-> "", isGeneratingImprovement |-> FALSE,
     isLoadingSession |-> FALSE, sessionCreatedRef |-> FALSE]

\* A slot without an instance.
FreeInst ==
    [status |-> "free", entryId |-> 0, text |-> "", showInput |-> FALSE,
     enableSynonyms |-> FALSE,
     sentenceSynonyms |-> EmptyObject, isLoadingRef |-> FALSE, lookups |-> 0]

NoSessionData ==
    [id |-> NullId, leftEntries |-> <<>>, rightEntries |-> <<>>,
     conversationHistory |-> <<>>, vocabularyData |-> EmptyObject]

\* The in-memory state that a session operation reads when it starts: the
\* notebooks, the history, the session id, the cache and the notebook list.
Snapshot(a, cache) ==
    [leftEntries |-> a.leftEntries, rightEntries |-> a.rightEntries,
     conversationHistory |-> a.conversationHistory,
     currentSessionId |-> a.currentSessionId, cache |-> cache,
     availableNotebooks |-> a.availableNotebooks]

NoSnapshot ==
    [leftEntries |-> <<>>, rightEntries |-> <<>>, conversationHistory |-> <<>>,
     currentSessionId |-> NullId, cache |-> EmptyObject, availableNotebooks |-> {}]

\* No operation in progress.  op is "loadSession" or "newSession", the two
\* callers of saveCurrentSessionWithRetry; sessionData is what that save
\* built from the state atSave, and saved tells whether it was written to
\* the store.
LoadIdle ==
    [pc |-> "idle", op |-> "", sessionId |-> NullId, sessionData |-> NoSessionData,
     atSave |-> NoSnapshot, saved |-> FALSE]

DelIdle == [pc |-> "idle", notebookId |-> NullId, before |-> NoSnapshot]

\* No handleSubmit in progress.  handlers holds the calls of handleSubmit
\* that wait for the store or for the chat service, in the order they
\* began, and improving the sentences whose improvement is still being
\* generated.  The rest is history: the entries posted, and the calls of
\* saveNotebookSession that were issued, and those of them that failed,
\* since the application started or "New Session" was last pressed.
ChatIdle ==
    [handlers |-> <<>>, improving |-> <<>>,
     posted |-> 0, createCalls |-> 0, createFailed |-> 0]

ListIdle == [pc |-> "idle"]

\* The last step of a lookup or of a session operation: the operation, how
\* it ended, the session it was about and whether it cleared the cache; and
\* the keys that lookups have written to the cache since it was last cleared.
NoEventYet ==
    [op |-> "start", result |-> "", sessionId |-> NullId, cleared |-> FALSE,
     stored |-> {}]

\* The instants in the store, and the instant new Date() gives during a run.
SavedInstant == "2025-01-01T10:00:00.000Z"
NowInstant == "2026-01-01T00:00:00.000Z"

DateOf(iso) == [t |-> "date", v |-> iso]

\* A field that a stored document may lack.
Absent == [present |-> FALSE, map |-> EmptyObject]
Present(obj) == [present |-> TRUE, map |-> obj]

Entry(id, text, timestamp, colorIndex) ==
    [id |-> id, text |-> text, timestamp |-> timestamp, colorIndex |-> colorIndex]

\* What the provider found in "So sad.".
SoSadSynonyms ==
    [k \in {"so", "sad"} |->
        IF k = "so" THEN ArrayOf(<<"very">>)
        ELSE ArrayOf(<<"unhappy", "gloomy", "downhearted">>)]

\* A JSON object the adapter accepts although a value is not a list.
NullValuedSynonyms == [k \in {"sad"} |-> Null]

\* The notebooks saved by earlier runs of the application: a session in which
\* the same sentence was entered twice and nothing was found for it, and a
\* session with one sentence in the saved vocabulary and one without, whose
\* first entry has a timestamp that is no date and whose reply repeats the
\* sentence, and a session saved without a vocabularyData field (as
\* saveNotebookSession of database.js writes it) whose entry has no timestamp.
InitialStore ==
    [id \in {"s1", "s2", "s3"} |->
        IF id = "s1"
        THEN [exists |-> TRUE,
              leftEntries |-> <<Entry(1, "So sad.", StringOf(SavedInstant), 0),
                                Entry(2, "So sad.", StringOf(SavedInstant), 1)>>,
              rightEntries |-> <<Entry(3, "Why?", StringOf(SavedInstant), 0)>>,
              conversationHistory |-> <<[role |-> "user", message |-> "So sad."],
                                        [role |-> "assistant", message |-> "Why?"]>>,
              vocabularyData |-> Present(EmptyObject)]
        ELSE IF id = "s3"
        THEN [exists |-> TRUE,
              leftEntries |-> <<Entry(6, " __PROTO__", Undefined, 0)>>,
              rightEntries |-> <<>>,
              conversationHistory |-> <<>>,
              vocabularyData |-> Absent]
        ELSE [exists |-> TRUE,
              leftEntries |-> <<Entry(4, "so sad.", StringOf("yesterday"), 0),
                                Entry(5, "A constructor.", StringOf(SavedInstant), 1)>>,
              rightEntries |-> <<Entry(7, "So sad.", StringOf(SavedInstant), 0)>>,
              conversationHistory |-> <<>>,
              vocabularyData |-> Present([k \in {"so sad."} |-> SoSadSynonyms])]]

SessionIds == DOMAIN InitialStore

MaxLoads == 2

\* Slots for the instances: those on screen and those destroyed with a lookup
\* still in flight.
InstIds == 1..(3 * (MaxLoads + 1))

AppIdle ==
    /\ app = AppStart
    /\ SYNONYMS_CACHE = EmptyObject
    /\ inst = [i \in InstIds |-> FreeInst]
    /\ store = InitialStore
    /\ load = LoadIdle
    /\ list = ListIdle
    /\ loads = 0
    /\ last = NoEventYet
    /\ del = DelIdle
    /\ chat = ChatIdle

ComponentsIdle ==
    /\ tok = TokIdle
    /\ adapter = AdapterIdle
    /\ hover = HoverIdle

-----------------------------------------------------------------------------
(* SynonymText.renderTextWithSynonyms, App.js lines 136-172 *)

SpanToken(str) == [text |-> str, interactive |-> FALSE]

\* One word of a sentence, App.js lines 149-168.
WordToken(word, enableSynonyms, sentenceSynonyms) ==
    LET cleanWord == CleanWordRender(word)
    IN [text |-> word,
        interactive |-> /\ enableSynonyms
                        /\ Truthy(GetProp(sentenceSynonyms, cleanWord))
                        /\ Trim(word) # ""]

RECURSIVE WordTokens(_, _, _)
WordTokens(words, enableSynonyms, sentenceSynonyms) ==
    IF words = <<>> THEN <<>>
    ELSE <<WordToken(Head(words), enableSynonyms, sentenceSynonyms)>>
           \o WordTokens(Tail(words), enableSynonyms, sentenceSynonyms)

\* One element of the sentence split, App.js lines 140-171.
SentenceTokens(sentence, enableSynonyms, sentenceSynonyms) ==
    IF Trim(sentence) = "" \/ AllIn(sentence, SentenceDelims)
    THEN <<SpanToken(sentence)>>
    ELSE WordTokens(SplitKeeping(sentence, WhitespaceChars),
                    enableSynonyms, sentenceSynonyms)

RECURSIVE SentencesTokens(_, _, _)
SentencesTokens(sentences, enableSynonyms, sentenceSynonyms) ==
    IF sentences = <<>> THEN <<>>
    ELSE SentenceTokens(Head(sentences), enableSynonyms, sentenceSynonyms)
           \o SentencesTokens(Tail(sentences), enableSynonyms, sentenceSynonyms)

SplitSentencesLossy(text) == SplitKeepingLossy(text, SentenceDelims)

\* text.split(/([.!?]+)/), App.js line 138.
SplitSentences(text) == SplitKeeping(text, SentenceDelims)

renderTextWithSynonyms(text, enableSynonyms, sentenceSynonyms) ==
    SentencesTokens(SplitSentences(text), enableSynonyms, sentenceSynonyms)

RECURSIVE SplitOnScan(_, _, _, _, _)
SplitOnScan(s, c, i, cur, out) ==
    IF i > Len(s) THEN Append(out, cur)
    ELSE IF Ch(s, i) = c THEN SplitOnScan(s, c, i + 1, "", Append(out, cur))
    ELSE SplitOnScan(s, c, i + 1, cur \o Ch(s, i), out)

\* text.split('\n'), App.js line 176.
SplitLines(text) == SplitOnScan(text, "\n", 1, "", <<>>)

RECURSIVE LinesTokens(_, _, _)
LinesTokens(lines, enableSynonyms, sentenceSynonyms) ==
    IF lines = <<>> THEN <<>>
    ELSE renderTextWithSynonyms(Head(lines), enableSynonyms, sentenceSynonyms)
           \o LinesTokens(Tail(lines), enableSynonyms, sentenceSynonyms)

\* What SynonymText shows of its text, App.js lines 174-181: the tokens of
\* its lines, each line in a block of its own.
renderLines(text, enableSynonyms, sentenceSynonyms) ==
    LinesTokens(SplitLines(text), enableSynonyms, sentenceSynonyms)

RECURSIVE TokenTexts(_)
TokenTexts(tokens) ==
    IF tokens = <<>> THEN <<>> ELSE <<Head(tokens).text>> \o TokenTexts(Tail(tokens))

-----------------------------------------------------------------------------
(* SynonymText.handleWordHover and handleWordLeave, App.js lines 93-134.   *)
(*                                                                         *)
(* The event carries whole pixels (the word's rectangle, the left and top  *)
(* of the enclosing .entry-content, window.innerWidth).  The handler       *)
(* halves a width that is a multiple of 6.5, so the computed lengths are   *)
(* kept in quarter pixels.                                                 *)

QuartersPerPixel == 4

TooltipMargin == 10        \* the 10 of lines 119-124
TooltipOffsetY == 10       \* line 109
TooltipMinWidth == 140     \* line 113
TooltipPadding == 70       \* line 113
CharWidthQuarters == 26    \* 6.5 pixels a character, line 113
SeparatorLength == 3       \* ' • ', line 112

Max(a, b) == IF a >= b THEN a ELSE b

RECURSIVE SumLengths(_)
SumLengths(strs) == IF strs = <<>> THEN 0 ELSE Len(Head(strs)) + SumLengths(Tail(strs))

\* wordSynonyms.join(' • ').length
JoinedLength(strs) ==
    IF strs = <<>> THEN 0 ELSE SumLengths(strs) + SeparatorLength * (Len(strs) - 1)

\* tooltipEstimatedWidth in quarter pixels, line 113.
TooltipEstimatedWidth(wordSynonyms) ==
    Max(TooltipMinWidth * QuartersPerPixel,
        JoinedLength(wordSynonyms) * CharWidthQuarters + TooltipPadding * QuartersPerPixel)

\* x of lines 108-125, in quarter pixels.
TooltipX(e, width) ==
    LET Q == QuartersPerPixel
        tooltipLeftEdge == e.rectLeft * Q - width \div 2
        tooltipRightEdge == e.rectLeft * Q + width \div 2
    IN IF tooltipLeftEdge < TooltipMargin * Q
       THEN TooltipMargin * Q - e.parentLeft * Q + width \div 2
       ELSE IF tooltipRightEdge > (e.viewportWidth - TooltipMargin) * Q
            THEN (e.viewportWidth - TooltipMargin) * Q - e.parentLeft * Q - width \div 2
            ELSE e.rectLeft * Q + (e.rectWidth * Q) \div 2 - e.parentLeft * Q

\* The hover state handleWordHover leaves, given the one it found.
handleWordHover(old, enableSynonyms, sentenceSynonyms, e, word) ==
    IF ~enableSynonyms THEN old
    ELSE LET cleanWord == CleanWordHover(word)
             wordSynonyms == GetProp(sentenceSynonyms, cleanWord)
         IN IF ~Truthy(wordSynonyms) THEN old
            ELSE IF wordSynonyms.t # "array"
                 THEN \* lines 100-101 ran; join of line 112 is a TypeError
                      [old EXCEPT !.hoveredWord = StringOf(cleanWord),
                                  !.synonyms = wordSynonyms,
                                  !.threw = TRUE]
                 ELSE [hoveredWord |-> StringOf(cleanWord),
                       synonyms |-> wordSynonyms,
                       tooltipPosition |->
                           [x |-> TooltipX(e, TooltipEstimatedWidth(wordSynonyms.v)),
                            y |-> (e.rectTop - e.parentTop - TooltipOffsetY)
                                     * QuartersPerPixel],
                       threw |-> FALSE]

\* A pointer-leave that keeps the list of the last hovered word.
handleWordLeaveKeepsList(old) ==
    [old EXCEPT !.hoveredWord = Null, !.threw = FALSE]

\* handleWordLeave, lines 131-134.
handleWordLeave(old) ==
    [old EXCEPT !.hoveredWord = Null, !.synonyms = ArrayOf(<<>>), !.threw = FALSE]

\* The hovered instance: an entry "So sad, Bob." whose lookup found two words.
HoverText == "So sad, Bob."

\* The words of a text that the renderer gives hover handlers.
InteractiveWords(text, enableSynonyms, sentenceSynonyms) ==
    LET tokens == renderTextWithSynonyms(text, enableSynonyms, sentenceSynonyms)
    IN {tokens[i].text : i \in {j \in 1..Len(tokens) : tokens[j].interactive}}

\* Window widths wide enough for the widest estimated tooltip and its margins.
ViewportWidths == {300, 400}
ParentLefts == {0, 20}
RectWidths == {20, 60}

InitHover ==
    /\ AppIdle
    /\ tok = TokIdle
    /\ adapter = AdapterIdle
    /\ \E vw \in ViewportWidths, pl \in ParentLefts, en \in BOOLEAN :
          hover = [HoverIdle EXCEPT !.enableSynonyms = en,
                                    !.sentenceSynonyms = SoSadSynonyms,
                                    !.text = HoverText,
                                    !.viewportWidth = vw,
                                    !.parentLeft = pl]

\* The pointer enters a word the renderer made interactive; the word lies
\* inside its container and inside the window.
HoverEnter ==
    /\ hover.st.hoveredWord.t = "null"
    /\ \E word \in InteractiveWords(hover.text, hover.enableSynonyms, hover.sentenceSynonyms),
          rw \in RectWidths :
       \E rl \in {p \in hover.parentLeft..(hover.viewportWidth - rw) : p % 10 = 0} :
          LET e == [rectLeft |-> rl, rectWidth |-> rw, rectTop |-> 100,
                    parentLeft |-> hover.parentLeft, parentTop |-> 80,
                    viewportWidth |-> hover.viewportWidth]
          IN hover' = [hover EXCEPT
                          !.word = word, !.e = e,
                          !.st = handleWordHover(@, hover.enableSynonyms,
                                                 hover.sentenceSynonyms, e, word)]
    /\ UNCHANGED <<tok, adapter>>
    /\ UNCHANGED appVars

HoverLeave ==
    /\ hover.st.hoveredWord.t # "null"
    /\ hover' = [hover EXCEPT !.st = handleWordLeave(@)]
    /\ UNCHANGED <<tok, adapter>>
    /\ UNCHANGED appVars

NextHover == HoverEnter \/ HoverLeave

SpecHover == InitHover /\ [][NextHover]_vars

\* The estimated tooltip of the current hover, in window coordinates
\* (quarter pixels): the anchor is its centre (translateX(-50%)).
EstimatedSpan ==
    LET width == TooltipEstimatedWidth(hover.st.synonyms.v)
        centre == hover.e.parentLeft * QuartersPerPixel + hover.st.tooltipPosition.x
    IN [left |-> centre - width \div 2, right |-> centre + width \div 2]

\* C4: on every hover of an eligible word the estimated tooltip lies inside
\* [margin, viewportWidth - margin].
C4_TooltipInsideViewport ==
    hover.st.hoveredWord.t # "null" =>
        /\ EstimatedSpan.left >= TooltipMargin * QuartersPerPixel
        /\ EstimatedSpan.right <= (hover.viewportWidth - TooltipMargin) * QuartersPerPixel

-----------------------------------------------------------------------------
(* The generative-text service and the Synonym Provider adapter,           *)
(* Backend/custom.js lines 143-202 and AI.js generateText.                 *)
(*                                                                         *)
(* A response text is a sequence of lexemes whose concatenation is the     *)
(* text: braces, commas, whitespace, object members and other text.        *)

MemVery == "\"very\":[\"extremely\",\"incredibly\",\"remarkably\"]"
MemSad == "\"sad\":[\"unhappy\"]"
\* A member with a raw line break inside a string literal: not JSON until
\* the line break is removed, when it becomes MemSad.
MemSadBroken == "\"sad\":[\"un\nhappy\"]"

\* The member a lexeme denotes to JSON.parse, if it is one.
IsMember(lexeme) == lexeme \in {MemVery, MemSad}
MemberKey(lexeme) == IF lexeme = MemVery THEN "very" ELSE "sad"
MemberValue(lexeme) ==
    IF lexeme = MemVery THEN ArrayOf(<<"extremely", "incredibly", "remarkably">>)
    ELSE ArrayOf(<<"unhappy">>)

IsJsonWhitespace(lexeme) == lexeme # "" /\ AllIn(lexeme, WhitespaceChars)

NotJsonWhitespace(lexeme) == ~IsJsonWhitespace(lexeme)

\* The members of "m , m , ... , m" (no whitespace left), or failure.
RECURSIVE ParseMembers(_, _)
ParseMembers(lexemes, obj) ==
    IF lexemes = <<>> THEN [ok |-> FALSE, value |-> EmptyObject]
    ELSE IF ~IsMember(Head(lexemes)) THEN [ok |-> FALSE, value |-> EmptyObject]
    ELSE LET k == MemberKey(Head(lexemes))
             next == [x \in DOMAIN obj \cup {k} |->
                        IF x = k THEN MemberValue(Head(lexemes)) ELSE obj[x]]
         IN IF Len(lexemes) = 1 THEN [ok |-> TRUE, value |-> next]
            ELSE IF lexemes[2] # "," THEN [ok |-> FALSE, value |-> EmptyObject]
            ELSE ParseMembers(SubSeq(lexemes, 3, Len(lexemes)), next)

\* JSON.parse of a text that starts with "{": the object, or a SyntaxError
\* (ok = FALSE).
JsonParse(lexemes) ==
    IF Len(lexemes) < 2 \/ Head(lexemes) # "{" \/ lexemes[Len(lexemes)] # "}"
    THEN [ok |-> FALSE, value |-> EmptyObject]
    ELSE LET inner == SelectSeq(SubSeq(lexemes, 2, Len(lexemes) - 1),
                                NotJsonWhitespace)
         IN IF inner = <<>> THEN [ok |-> TRUE, value |-> EmptyObject]
            ELSE ParseMembers(inner, EmptyObject)

NoMatch == [found |-> FALSE, text |-> <<>>]

FirstIndex(lexemes, from, what) ==
    LET hits == {i \in from..Len(lexemes) : lexemes[i] = what}
    IN IF hits = {} THEN 0 ELSE CHOOSE i \in hits : \A j \in hits : i <= j

\* response.match(/\{[\s\S]*?\}/): from the first "{" to the first "}" after it.
MatchFirstBraces(lexemes) ==
    LET open == FirstIndex(lexemes, 1, "{")
        close == IF open = 0 THEN 0 ELSE FirstIndex(lexemes, open + 1, "}")
    IN IF open = 0 \/ close = 0 THEN NoMatch
       ELSE [found |-> TRUE, text |-> SubSeq(lexemes, open, close)]

\* match(/\{[^{}]*\}/): the leftmost "{" whose next brace is a "}".
MatchInnermostBraces(lexemes) ==
    LET starts == {i \in 1..Len(lexemes) :
                     /\ lexemes[i] = "{"
                     /\ \E j \in (i + 1)..Len(lexemes) :
                           /\ lexemes[j] = "}"
                           /\ \A m \in (i + 1)..(j - 1) : lexemes[m] \notin {"{", "}"}}
    IN IF starts = {} THEN NoMatch
       ELSE LET open == CHOOSE i \in starts : \A j \in starts : i <= j
            IN [found |-> TRUE,
                text |-> SubSeq(lexemes, open, FirstIndex(lexemes, open + 1, "}"))]

DropControl(c) == IF c \in {"\n", "\r", "\t"} THEN "" ELSE c

NonEmptyLexeme(lexeme) == lexeme # ""

RECURSIVE StripControlChars(_)
StripControlChars(s) ==
    IF s = "" THEN ""
    ELSE DropControl(Ch(s, 1)) \o StripControlChars(SubSeq(s, 2, Len(s)))

RECURSIVE StripEach(_)
StripEach(lexemes) ==
    IF lexemes = <<>> THEN <<>>
    ELSE <<StripControlChars(Head(lexemes))>> \o StripEach(Tail(lexemes))

\* response.replace(/[\n\r\t]/g, '')
StripControl(lexemes) == SelectSeq(StripEach(lexemes), NonEmptyLexeme)

\* The parsing with a fallback that forgets to strip the line breaks.
ParseResponseNoStrip(response) ==
    LET jsonMatch == MatchFirstBraces(response)
    IN IF ~jsonMatch.found THEN EmptyObject
       ELSE LET parsed == JsonParse(jsonMatch.text)
            IN IF parsed.ok
               THEN IF DOMAIN parsed.value # {} THEN parsed.value ELSE EmptyObject
               ELSE LET cleanJson == MatchInnermostBraces(response)
                    IN IF ~cleanJson.found THEN EmptyObject
                       ELSE LET second == JsonParse(cleanJson.text)
                            IN IF second.ok THEN second.value ELSE EmptyObject

\* custom.js lines 177-197, for a response that is a string.
ParseResponse(response) ==
    LET jsonMatch == MatchFirstBraces(response)
    IN IF ~jsonMatch.found THEN EmptyObject
       ELSE LET parsed == JsonParse(jsonMatch.text)
            IN IF parsed.ok
               THEN \* lines 180-184: a non-empty object is returned, an empty
                    \* one falls through to line 197
                    IF DOMAIN parsed.value # {} THEN parsed.value ELSE EmptyObject
               ELSE \* lines 185-195
                    LET cleanJson == MatchInnermostBraces(StripControl(response))
                    IN IF ~cleanJson.found THEN EmptyObject
                       ELSE LET second == JsonParse(cleanJson.text)
                            IN IF second.ok THEN second.value ELSE EmptyObject

\* What a call can end with: a returned value or a thrown exception.
Returned(val) == [threw |-> FALSE, value |-> val]
Thrown == [threw |-> TRUE, value |-> EmptyObject]

\* What the generative-text service can do with one request.
ServiceNoText == [kind |-> "undefined", text |-> <<>>]
ServiceText(lexemes) == [kind |-> "text", text |-> lexemes]

\* AIService.generateText, AI.js lines 15-27: response.text, or an Error.
generateText(outcome) ==
    IF outcome.kind = "error" THEN Thrown
    ELSE IF outcome.kind = "undefined" THEN Returned(Undefined)
    ELSE Returned(StringOf(outcome.text))

\* The adapter with its outer catch rethrowing.
AdapterRethrows(outcome) ==
    LET response == generateText(outcome)
    IN IF response.threw \/ response.value.t # "string" THEN Thrown
       ELSE Returned(ParseResponse(response.value.v))

\* CustomAIService.getSynonymsForSentence after its one await: the outer
\* try/catch of custom.js lines 144-201.  response.match on undefined is a
\* TypeError, caught like the service's error.
AdapterReturn(outcome) ==
    LET response == generateText(outcome)
    IN IF response.threw THEN Returned(EmptyObject)
       ELSE IF response.value.t # "string" THEN Returned(EmptyObject)
       ELSE Returned(ParseResponse(response.value.v))

\* App.js lines 19-31, after the await of the adapter: the value returned by
\* the App-level getSynonymsForSentence and whether it is put in the cache.
AppLookupReturn(adapterRet) ==
    IF adapterRet.threw
    THEN [threw |-> FALSE, value |-> EmptyObject, cached |-> FALSE]
    ELSE IF DOMAIN adapterRet.value # {}
         THEN [threw |-> FALSE, value |-> adapterRet.value, cached |-> TRUE]
         ELSE [threw |-> FALSE, value |-> EmptyObject, cached |-> FALSE]

MaxResponseLen == 4

ResponseLexemes == {"{", "}", ",", "\n", "Sure", MemVery, MemSadBroken}

RECURSIVE LexemeSeqsUpTo(_)
LexemeSeqsUpTo(n) ==
    IF n = 0 THEN {<<>>}
    ELSE LET shorter == LexemeSeqsUpTo(n - 1)
         IN shorter \cup {Append(s, x) : s \in shorter, x \in ResponseLexemes}

ExamplePreamble == <<"Some preamble ", "{", MemVery, "}", " trailing">>
ExampleNoJson == <<"no json here">>
ExampleEmptyObject == <<"{", "}">>

Responses ==
    LexemeSeqsUpTo(MaxResponseLen) \cup {ExamplePreamble, ExampleNoJson, ExampleEmptyObject}

ServiceOutcomes == {ServiceError, ServiceNoText} \cup {ServiceText(r) : r \in Responses}

InitAdapter ==
    /\ AppIdle
    /\ tok = TokIdle
    /\ hover = HoverIdle
    /\ adapter \in {[AdapterIdle EXCEPT !.outcome = o] : o \in ServiceOutcomes}

\* The App-level getSynonymsForSentence misses the cache and calls the
\* adapter, which sends its one prompt: custom.js line 173.
AdapterCall ==
    /\ adapter.pc = "idle"
    /\ adapter' = [adapter EXCEPT !.pc = "awaitService", !.requests = @ + 1]
    /\ UNCHANGED <<tok, hover>>
    /\ UNCHANGED appVars

\* The service answers or fails; the adapter and then its caller return.
AdapterResume ==
    /\ adapter.pc = "awaitService"
    /\ LET ret == AdapterReturn(adapter.outcome)
       IN adapter' = [adapter EXCEPT !.pc = "done", !.ret = ret,
                                     !.app = AppLookupReturn(ret)]
    /\ UNCHANGED <<tok, hover>>
    /\ UNCHANGED appVars

NextAdapter == AdapterCall \/ AdapterResume

SpecAdapter == InitAdapter /\ [][NextAdapter]_vars

\* The parsing as the specification words it: the first non-greedy match
\* when it parses to a non-empty object, else the innermost match of the
\* stripped response when it parses, else the empty mapping.
SpecifiedParse(response) ==
    LET first == MatchFirstBraces(response)
        p1 == JsonParse(first.text)
        second == MatchInnermostBraces(StripControl(response))
        p2 == JsonParse(second.text)
    IN IF first.found /\ p1.ok /\ DOMAIN p1.value # {} THEN p1.value
       ELSE IF second.found /\ p2.ok THEN p2.value
       ELSE EmptyObject

VeryMapping ==
    [k \in {"very"} |-> ArrayOf(<<"extremely", "incredibly", "remarkably">>)]

\* C5: the adapter returns the specified parsing of every response text; the
\* response with a preamble and trailing text yields exactly the mapping of
\* "very", a response without braces and the response "{}" yield {}.
C5_ParsingPolicy ==
    (adapter.pc = "done" /\ adapter.outcome.kind = "text") =>
        /\ adapter.ret.value = SpecifiedParse(adapter.outcome.text)
        /\ (adapter.outcome.text = ExamplePreamble => adapter.ret.value = VeryMapping)
        /\ (adapter.outcome.text = ExampleNoJson => adapter.ret.value = EmptyObject)
        /\ (adapter.outcome.text = ExampleEmptyObject => adapter.ret.value = EmptyObject)
        /\ (adapter.outcome.text = <<"{", MemSadBroken, "}">> =>
                adapter.ret.value = [k \in {"sad"} |-> ArrayOf(<<"unhappy">>)])

\* The adapter has returned the mapping found between a preamble and a trailer.
C5_Witness ==
    /\ adapter.pc = "done"
    /\ adapter.outcome = ServiceText(ExamplePreamble)
    /\ adapter.ret.value = VeryMapping

\* Neither parsing attempt of the code yields an object.
NothingParses(response) ==
    LET first == MatchFirstBraces(response)
        second == MatchInnermostBraces(StripControl(response))
    IN /\ ~(first.found /\ JsonParse(first.text).ok)
       /\ ~(second.found /\ JsonParse(second.text).ok)

\* C6: one invocation sends at most one request and never throws; a service
\* error, a response without text and a response nothing parses from all end
\* in the empty mapping, from the adapter and from its caller, which does not
\* cache it.
C6_OneRequestNoThrow ==
    /\ adapter.requests <= 1
    /\ adapter.pc = "done" =>
          /\ adapter.requests = 1
          /\ ~adapter.ret.threw
          /\ ~adapter.app.threw
          /\ (\/ adapter.outcome.kind \in {"error", "undefined"}
              \/ NothingParses(adapter.outcome.text))
                => /\ adapter.ret.value = EmptyObject
                   /\ adapter.app.value = EmptyObject
                   /\ ~adapter.app.cached

\* The service failed and the lookup ended with the empty mapping.
C6_Witness ==
    /\ adapter.pc = "done"
    /\ adapter.outcome = ServiceError
    /\ adapter.requests = 1
    /\ adapter.app.value = EmptyObject

-----------------------------------------------------------------------------
(* The SynonymText instances, App.js lines 56-91, and the entries that     *)
(* NotebookComponent shows through them, lines 429-456                     *)

\* The provider's answers: what the adapter can return for a sentence.
ProviderReturns == {EmptyObject, SoSadSynonyms, NullValuedSynonyms}

\* The effect without its test of the in-flight flag (and without the test
\* of line 77).
RunEffectUnguarded(instance, cache) ==
    IF /\ instance.enableSynonyms
       /\ instance.text # ""
       /\ Trim(instance.text) # ""
    THEN LET cacheKey == CacheKey(instance.text)
         IN IF cacheKey \in DOMAIN cache
            THEN [instance EXCEPT !.sentenceSynonyms = cache[cacheKey]]
            ELSE [instance EXCEPT !.isLoadingRef = TRUE, !.lookups = @ + 1]
    ELSE instance

\* The effect of lines 64-74 on an instance, with the call of
\* loadSentenceSynonyms (lines 76-82) up to its await: a cache hit becomes
\* the instance's map, a miss sets the in-flight flag and calls the provider.
RunEffect(instance, cache) ==
    IF /\ instance.enableSynonyms
       /\ instance.text # ""
       /\ Trim(instance.text) # ""
       /\ ~instance.isLoadingRef
    THEN LET cacheKey == CacheKey(instance.text)
         IN IF cacheKey \in DOMAIN cache
            THEN [instance EXCEPT !.sentenceSynonyms = cache[cacheKey]]
            ELSE [instance EXCEPT !.isLoadingRef = TRUE, !.lookups = @ + 1]
    ELSE instance

\* A notebook that passes enableSynonyms to the instances of both sides.
EnableSynonymsEverywhere(showInput) == TRUE

\* enableSynonyms={showInput}, line 446: the left notebook is the one
\* rendered with showInput (lines 1061-1082).
EnableSynonymsProp(showInput) == showInput

\* The effect of a new instance under React StrictMode (the comment of line
\* 759: "React StrictMode runs useEffect twice"): it runs, and runs again
\* before anything it awaits can resolve; the ref keeps its value.
StrictModeEffect(instance, cache) ==
    RunEffect(RunEffect(instance, cache), cache)

\* A new instance for an entry of the notebook rendered with showInput,
\* after its effect.
MountInstance(entry, showInput, cache) ==
    StrictModeEffect([status |-> "mounted", entryId |-> entry.id, text |-> entry.text,
                      showInput |-> showInput,
                      enableSynonyms |-> EnableSynonymsProp(showInput),
                      sentenceSynonyms |-> EmptyObject,
                      isLoadingRef |-> FALSE, lookups |-> 0],
                     cache)

\* An instance removed from the tree.  One without a lookup in flight can
\* never run again and frees its slot.
UnmountInstance(instance) ==
    IF instance.lookups = 0 THEN FreeInst
    ELSE [instance EXCEPT !.status = "destroyed"]

EntryIdsOf(entries) == {entries[i].id : i \in 1..Len(entries)}

EntryWithId(entries, id) ==
    entries[CHOOSE i \in 1..Len(entries) : entries[i].id = id]

\* The slots a new instance may take.
Available(instances) ==
    {i \in InstIds : \/ instances[i].status = "free"
                     \/ instances[i].status = "destroyed" /\ instances[i].lookups = 0}

\* An unmounted instance whose lookup has come back can never run again:
\* its slot is free, with the state and the ref as they were left.
Released(instance) ==
    IF instance.status = "destroyed" /\ instance.lookups = 0
    THEN [FreeInst EXCEPT !.sentenceSynonyms = instance.sentenceSynonyms,
                          !.isLoadingRef = instance.isLoadingRef]
    ELSE instance

RECURSIVE MountAll(_, _, _, _)
MountAll(instances, entries, showInput, cache) ==
    IF entries = <<>> THEN instances
    ELSE LET slot == CHOOSE i \in Available(instances) :
                        \A j \in Available(instances) : i <= j
         IN MountAll([instances EXCEPT
                         ![slot] = MountInstance(Head(entries), showInput, cache)],
                     Tail(entries), showInput, cache)

NewEntries(entries, keptIds) ==
    SelectSeq(entries, LAMBDA en : en.id \notin keptIds)

\* The slots after a reconciliation.  The mounted instances take the first
\* slots in the order of the tree (lines 429-456 and 1061-1082: the left
\* notebook's entries, then the right notebook's); an instance unmounted
\* earlier keeps the slot it awaits its lookup in, and the instances
\* unmounted now move to the last slots that are free.
InTreeOrder(instances, held, leftEntries, rightEntries) ==
    LET moved == {i \in InstIds \ held : instances[i].status = "destroyed"}
        InstanceOf(showInput, entryId) ==
            instances[CHOOSE i \in InstIds :
                         /\ instances[i].status = "mounted"
                         /\ instances[i].showInput = showInput
                         /\ instances[i].entryId = entryId]
    IN [t \in InstIds |->
           IF t \in held THEN instances[t]
           ELSE IF t <= Len(leftEntries) THEN InstanceOf(TRUE, leftEntries[t].id)
           ELSE IF t <= Len(leftEntries) + Len(rightEntries)
                THEN InstanceOf(FALSE, rightEntries[t - Len(leftEntries)].id)
           ELSE LET r == Cardinality({u \in InstIds \ held : u >= t})
                IN IF r <= Cardinality(moved)
                   THEN instances[CHOOSE i \in moved :
                                     Cardinality({j \in moved : j <= i}) = r]
                   ELSE FreeInst]

\* React's reconciliation of the two notebooks by key={entry.id}: an
\* instance whose entry stays in its notebook is kept (and runs its effect
\* again if the text changed), the others are unmounted, and the entries
\* without an instance get one.
Reconcile(instances, leftEntries, rightEntries, cache) ==
    LET stays(i) ==
            /\ instances[i].status = "mounted"
            /\ instances[i].entryId \in
                  EntryIdsOf(IF instances[i].showInput
                             THEN leftEntries ELSE rightEntries)
        keptLeft == {instances[i].entryId : i \in {j \in InstIds :
                        stays(j) /\ instances[j].showInput}}
        keptRight == {instances[i].entryId : i \in {j \in InstIds :
                        stays(j) /\ ~instances[j].showInput}}
        updated ==
            [i \in InstIds |->
                IF instances[i].status # "mounted" THEN instances[i]
                ELSE IF ~stays(i) THEN UnmountInstance(instances[i])
                ELSE LET entry == EntryWithId(IF instances[i].showInput
                                              THEN leftEntries ELSE rightEntries,
                                              instances[i].entryId)
                     IN IF entry.text = instances[i].text THEN instances[i]
                        ELSE RunEffect([instances[i] EXCEPT !.text = entry.text], cache)]
        withLeft == MountAll(updated, NewEntries(leftEntries, keptLeft), TRUE, cache)
    IN InTreeOrder(MountAll(withLeft, NewEntries(rightEntries, keptRight), FALSE, cache),
                   {i \in InstIds : instances[i].status = "destroyed"},
                   leftEntries, rightEntries)

\* loadSentenceSynonyms after its await, lines 82-90: a non-empty result is
\* set as the instance's map (React drops the update of an instance that is
\* no longer mounted), and the in-flight flag is reset in every case.
AfterLookup(instance, synonymsData) ==
    [instance EXCEPT
        !.sentenceSynonyms = IF DOMAIN synonymsData # {} /\ instance.status = "mounted"
                             THEN synonymsData ELSE @,
        !.isLoadingRef = FALSE,
        !.lookups = @ - 1]

\* The provider answers the lookup of instance i: App.js lines 20-31 and 82-90.
LookupResolve(i) ==
    /\ inst[i].lookups > 0
    /\ \E answer \in ProviderReturns :
          LET got == AppLookupReturn(Returned(answer))
              cacheKey == CacheKey(inst[i].text)
          IN /\ SYNONYMS_CACHE' =
                    IF got.cached
                    THEN [k \in DOMAIN SYNONYMS_CACHE \cup {cacheKey} |->
                             IF k = cacheKey THEN got.value ELSE SYNONYMS_CACHE[k]]
                    ELSE SYNONYMS_CACHE
             /\ inst' = [inst EXCEPT ![i] = Released(AfterLookup(@, got.value))]
             /\ last' = [op |-> "lookup", result |-> IF got.cached THEN "cached" ELSE "empty",
                         sessionId |-> NullId, cleared |-> FALSE,
                         stored |-> IF got.cached THEN last.stored \cup {cacheKey}
                                    ELSE last.stored]
    /\ UNCHANGED <<app, store, load, list, loads>>
    /\ UNCHANGED <<componentVars, del, chat>>

-----------------------------------------------------------------------------
(* The Session Store (Backend/database.js) and the session operations of   *)
(* App: loadAvailableNotebooks, saveCurrentSessionWithRetry, loadSession    *)

\* new Date(x) for a stored timestamp: valid for the ISO strings only.
IsValidDate(timestamp) ==
    timestamp.t = "string" /\ timestamp.v \in {SavedInstant, NowInstant}

\* The conversion without the isNaN test of line 664: an Invalid Date for
\* whatever new Date cannot parse.
EntryWithParsedDate(entry) ==
    [entry EXCEPT !.timestamp =
        IF IsValidDate(entry.timestamp) THEN DateOf(entry.timestamp.v)
        ELSE DateOf("Invalid Date")]

\* Lines 659-675 and 677-693: the entry with its timestamp as a Date, the
\* current time standing in for one that is missing or no date.
EntryWithDate(entry) ==
    [entry EXCEPT !.timestamp =
        IF Truthy(entry.timestamp) /\ IsValidDate(entry.timestamp)
        THEN DateOf(entry.timestamp.v)
        ELSE DateOf(NowInstant)]

\* Lines 596-603: a Date is stored as its ISO string.
EntryForStore(entry) ==
    [entry EXCEPT !.timestamp =
        IF entry.timestamp.t = "date" THEN StringOf(entry.timestamp.v) ELSE @]

\* leftEntries.map(...), lines 659 and 596.
RECURSIVE EntriesWithDates(_)
EntriesWithDates(entries) ==
    IF entries = <<>> THEN <<>>
    ELSE <<EntryWithDate(Head(entries))>> \o EntriesWithDates(Tail(entries))

RECURSIVE EntriesForStore(_)
EntriesForStore(entries) ==
    IF entries = <<>> THEN <<>>
    ELSE <<EntryForStore(Head(entries))>> \o EntriesForStore(Tail(entries))

\* Lines 536-539: vocabularyData[key] = value for every entry of the cache,
\* on a plain object.  Assigning to "__proto__" sets the object's prototype
\* (the values are objects) and adds no property.
ExportVocabulary(cache) ==
    [k \in DOMAIN cache \ {"__proto__"} |-> cache[k]]

\* The sessionData of lines 594-607, with the vocabulary exported at
\* lines 536-539 (title and lastUpdated are left out).
BuildSessionData(a, cache) ==
    [id |-> a.currentSessionId,
     leftEntries |-> EntriesForStore(a.leftEntries),
     rightEntries |-> EntriesForStore(a.rightEntries),
     conversationHistory |-> a.conversationHistory,
     vocabularyData |-> ExportVocabulary(cache)]

\* A save that runs whatever is open.
SaveAlwaysRuns(a) == TRUE

\* Lines 513-523: the two guards that return before anything is saved.
SaveWillRun(a) ==
    /\ a.currentSessionId # NullId
    /\ ~(a.leftEntries = <<>> /\ a.rightEntries = <<>>)

\* DatabaseService.updateNotebook, database.js lines 108-121: updateDoc
\* replaces the given fields of an existing document.
UpdatedStore(st, data) ==
    [st EXCEPT ![data.id] =
        [@ EXCEPT !.leftEntries = data.leftEntries,
                  !.rightEntries = data.rightEntries,
                  !.conversationHistory = data.conversationHistory,
                  !.vocabularyData = Present(data.vocabularyData)]]

\* A restore that adds the saved vocabulary to what the cache holds.
RestoreByMerging(cache, vocabularyData) ==
    IF vocabularyData.present
    THEN [k \in DOMAIN cache \cup DOMAIN vocabularyData.map |->
             IF k \in DOMAIN vocabularyData.map THEN vocabularyData.map[k] ELSE cache[k]]
    ELSE cache

\* Lines 705-712: a vocabularyData field that is there replaces the cache.
RestoreVocabulary(cache, vocabularyData) ==
    IF vocabularyData.present THEN vocabularyData.map ELSE cache

\* The "My Journals" button, lines 625-627.  The list, once shown, covers
\* the whole window and the button with it (lines 1095-1107).
ListStart ==
    /\ list.pc = "idle"
    /\ ~app.showNotebooksList
    /\ list' = [pc |-> "awaitList"]
    /\ app' = [app EXCEPT !.isLoadingNotebooks = TRUE]
    /\ UNCHANGED <<SYNONYMS_CACHE, inst, store, load, loads, last>>
    /\ UNCHANGED <<componentVars, del, chat>>

\* getAllNotebooks returns or throws, lines 628-637.
ListDone ==
    /\ list.pc = "awaitList"
    /\ list' = ListIdle
    /\ \E ok \in BOOLEAN :
          app' = IF ok
                 THEN [app EXCEPT !.availableNotebooks =
                                     {id \in DOMAIN store : store[id].exists},
                                  !.showNotebooksList = TRUE,
                                  !.isLoadingNotebooks = FALSE]
                 ELSE [app EXCEPT !.isLoadingNotebooks = FALSE]
    /\ UNCHANGED <<SYNONYMS_CACHE, inst, store, load, loads, last>>
    /\ UNCHANGED <<componentVars, del, chat>>

\* The close button of the notebooks list, line 1170.
ListClose ==
    /\ app.showNotebooksList /\ ~app.isLoadingSession
    /\ app' = [app EXCEPT !.showNotebooksList = FALSE]
    /\ UNCHANGED <<SYNONYMS_CACHE, inst, store, load, list, loads, last>>
    /\ UNCHANGED <<componentVars, del, chat>>

\* The timer of line 616 hides the save confirmation.
SaveConfirmedExpires ==
    /\ app.saveConfirmed
    /\ app' = [app EXCEPT !.saveConfirmed = FALSE]
    /\ UNCHANGED <<SYNONYMS_CACHE, inst, store, load, list, loads, last>>
    /\ UNCHANGED <<componentVars, del, chat>>

\* saveCurrentSessionWithRetry up to its first await, lines 514-566 (or 609
\* when no title is requested from the service): the pc it stops at, or
\* "saveDone" when it returns at once.
SaveStartPc(a) ==
    IF ~((a.leftEntries # <<>> \/ a.rightEntries # <<>>) /\ SaveWillRun(a)) THEN "saveDone"
    ELSE IF a.conversationHistory = <<>> THEN "awaitUpdate"
    ELSE "awaitTitle"

\* Lines 526-527.
SaveStarted(a) == [a EXCEPT !.isSaving = TRUE, !.saveConfirmed = FALSE]

\* Lines 609-621, after updateNotebook returned or threw.
SaveEnded(a, saved) ==
    IF saved THEN [a EXCEPT !.saveConfirmed = TRUE, !.isSaving = FALSE]
    ELSE [a EXCEPT !.isSaving = FALSE]

\* A failed load that also empties the notebooks.
LoadFailedAndCleared(a) ==
    [a EXCEPT !.leftEntries = <<>>, !.rightEntries = <<>>, !.isLoadingSession = FALSE]

\* Lines 714-724: the alert, and the finally block.
LoadFailed(a) == [a EXCEPT !.isLoadingSession = FALSE]

\* Lines 695-703 and 713, 722-724: the state after a successful load.
LoadSucceeded(a, sessionId, sessionData) ==
    [a EXCEPT !.leftEntries = EntriesWithDates(sessionData.leftEntries),
              !.rightEntries = EntriesWithDates(sessionData.rightEntries),
              !.conversationHistory = sessionData.conversationHistory,
              !.currentSessionId = sessionId,
              !.lastUserInput = "",
              !.improvedSentence = "",
              !.isGeneratingImprovement = FALSE,
              !.showNotebooksList = FALSE,
              !.isLoadingSession = FALSE]

\* createNewSessionManually, lines 796-809.
NewSessionCleared(a) ==
    [a EXCEPT !.leftEntries = <<>>,
              !.rightEntries = <<>>,
              !.conversationHistory = <<>>,
              !.currentSessionId = NullId,
              !.lastUserInput = "",
              !.improvedSentence = "",
              !.isGeneratingImprovement = FALSE,
              !.sessionCreatedRef = FALSE]

Event(op, result, sessionId, cleared) ==
    [op |-> op, result |-> result, sessionId |-> sessionId, cleared |-> cleared,
     stored |-> IF cleared THEN {} ELSE last.stored]

\* A click on a listed notebook, line 1212: loadSession up to its first
\* await (lines 642-653), with saveCurrentSessionWithRetry up to its first
\* await when the notebooks are not empty.
LoadStart(sessionId) ==
    /\ load.pc = "idle"
    /\ loads < MaxLoads
    /\ app.showNotebooksList /\ ~app.isLoadingNotebooks /\ ~app.isLoadingSession
    /\ sessionId \in app.availableNotebooks
    /\ loads' = loads + 1
    /\ LET pc == SaveStartPc(app)
           saving == pc # "saveDone"
       IN /\ app' = IF saving
                    THEN SaveStarted([app EXCEPT !.isLoadingSession = TRUE])
                    ELSE [app EXCEPT !.isLoadingSession = TRUE]
          /\ load' = [pc |-> IF saving THEN pc ELSE "awaitGet",
                      op |-> "loadSession",
                      sessionId |-> sessionId,
                      sessionData |-> IF saving THEN BuildSessionData(app, SYNONYMS_CACHE)
                                      ELSE NoSessionData,
                      atSave |-> IF saving THEN Snapshot(app, SYNONYMS_CACHE)
                                 ELSE NoSnapshot,
                      saved |-> FALSE]
    /\ last' = Event("loadSession", "called", sessionId, FALSE)
    /\ UNCHANGED <<SYNONYMS_CACHE, inst, store, list>>
    /\ UNCHANGED <<componentVars, del, chat>>

\* The title request of line 566 returns or fails (either way a title is
\* chosen), and updateNotebook is called, line 609.
LoadTitleDone ==
    /\ load.pc = "awaitTitle"
    /\ load' = [load EXCEPT !.pc = "awaitUpdate"]
    /\ last' = Event(load.op, "titled", load.sessionId, FALSE)
    /\ UNCHANGED <<app, SYNONYMS_CACHE, inst, store, list, loads>>
    /\ UNCHANGED <<componentVars, del, chat>>

\* updateNotebook returns or throws, lines 609-621; loadSession goes on to
\* getNotebook, line 653.
LoadUpdateDone ==
    /\ load.pc = "awaitUpdate"
    /\ load.op = "loadSession"
    /\ \E ok \in BOOLEAN :
          LET saved == ok /\ store[load.sessionData.id].exists
          IN /\ store' = IF saved THEN UpdatedStore(store, load.sessionData) ELSE store
             /\ app' = SaveEnded(app, saved)
             /\ last' = Event("loadSession", IF saved THEN "saved" ELSE "saveFailed",
                              load.sessionId, FALSE)
             /\ load' = [load EXCEPT !.pc = "awaitGet", !.saved = saved]
    /\ UNCHANGED <<SYNONYMS_CACHE, inst, list, loads>>
    /\ UNCHANGED <<componentVars, del, chat>>

\* getNotebook returns the document, returns null or throws: lines 653-724,
\* and the render that follows the state changes.
LoadGetDone ==
    /\ load.pc = "awaitGet"
    /\ load' = LoadIdle
    /\ \E ok \in BOOLEAN :
          LET sessionData == store[load.sessionId]
          IN IF ok /\ sessionData.exists
             THEN LET cache == RestoreVocabulary(SYNONYMS_CACHE, sessionData.vocabularyData)
                  IN /\ app' = LoadSucceeded(app, load.sessionId, sessionData)
                     /\ SYNONYMS_CACHE' = cache
                     /\ inst' = Reconcile(inst, app'.leftEntries, app'.rightEntries, cache)
                     /\ last' = Event("loadSession", "loaded", load.sessionId,
                                      sessionData.vocabularyData.present)
             ELSE /\ app' = LoadFailed(app)
                  /\ last' = Event("loadSession", "alert", load.sessionId, FALSE)
                  /\ UNCHANGED <<SYNONYMS_CACHE, inst>>
    /\ UNCHANGED <<store, list, loads>>
    /\ UNCHANGED <<componentVars, del, chat>>

\* The save button, line 1004, which is disabled while a save runs and
\* which the notebooks list covers: saveCurrentSessionWithRetry up to its
\* first await, or to its return at line 516 or 522.
SaveClick ==
    /\ load.pc = "idle"
    /\ ~app.isSaving /\ ~app.showNotebooksList
    /\ IF SaveWillRun(app)
       THEN /\ app' = SaveStarted(app)
            /\ load' = [pc |-> IF app.conversationHistory = <<>> THEN "awaitUpdate"
                               ELSE "awaitTitle",
                        op |-> "save", sessionId |-> app.currentSessionId,
                        sessionData |-> BuildSessionData(app, SYNONYMS_CACHE),
                        atSave |-> Snapshot(app, SYNONYMS_CACHE),
                        saved |-> FALSE]
            /\ last' = Event("save", "called", app.currentSessionId, FALSE)
       ELSE /\ last' = Event("save", "skipped", app.currentSessionId, FALSE)
            /\ UNCHANGED <<app, load>>
    /\ UNCHANGED <<SYNONYMS_CACHE, inst, store, list, loads>>
    /\ UNCHANGED <<componentVars, del, chat>>

\* updateNotebook returns or throws, lines 609-621, and the save ends.
SaveUpdateDone ==
    /\ load.pc = "awaitUpdate"
    /\ load.op = "save"
    /\ \E ok \in BOOLEAN :
          LET saved == ok /\ store[load.sessionData.id].exists
          IN /\ store' = IF saved THEN UpdatedStore(store, load.sessionData) ELSE store
             /\ app' = SaveEnded(app, saved)
             /\ last' = Event("save", IF saved THEN "saved" ELSE "saveFailed",
                              load.sessionId, FALSE)
    /\ load' = LoadIdle
    /\ UNCHANGED <<SYNONYMS_CACHE, inst, list, loads>>
    /\ UNCHANGED <<componentVars, del, chat>>

\* The calls of saveNotebookSession are counted from the last reset.
CountedAnew(c) ==
    [c EXCEPT !.createCalls = 0,
              !.createFailed = 0,
              !.handlers = [h \in DOMAIN @ |-> [@[h] EXCEPT !.sinceReset = FALSE]]]

\* The "New Session" button, line 976, which the notebooks list covers when
\* it is shown: createNewSessionManually up to the first await of the save
\* (lines 788-792), or to its end when nothing is saved (lines 796-814).
NewSessionStart ==
    /\ load.pc = "idle"
    /\ ~app.showNotebooksList
    /\ LET pc == SaveStartPc(app)
       IN IF pc = "saveDone"
          THEN /\ app' = NewSessionCleared(app)
               /\ SYNONYMS_CACHE' = EmptyObject
               /\ inst' = Reconcile(inst, <<>>, <<>>, EmptyObject)
               /\ last' = Event("newSession", "done", NullId, TRUE)
               /\ chat' = CountedAnew(chat)
               /\ UNCHANGED load
          ELSE /\ app' = SaveStarted(app)
               /\ load' = [pc |-> pc, op |-> "newSession", sessionId |-> NullId,
                           sessionData |-> BuildSessionData(app, SYNONYMS_CACHE),
                           atSave |-> Snapshot(app, SYNONYMS_CACHE),
                           saved |-> FALSE]
               /\ last' = Event("newSession", "called", NullId, FALSE)
               /\ UNCHANGED <<SYNONYMS_CACHE, inst, chat>>
    /\ UNCHANGED <<store, list, loads>>
    /\ UNCHANGED <<componentVars, del>>

\* updateNotebook returns or throws, lines 609-621, and
\* createNewSessionManually runs to its end, lines 796-814.
NewSessionUpdateDone ==
    /\ load.pc = "awaitUpdate"
    /\ load.op = "newSession"
    /\ \E ok \in BOOLEAN :
          LET saved == ok /\ store[load.sessionData.id].exists
          IN /\ store' = IF saved THEN UpdatedStore(store, load.sessionData) ELSE store
             /\ app' = NewSessionCleared(SaveEnded(app, saved))
    /\ SYNONYMS_CACHE' = EmptyObject
    /\ inst' = Reconcile(inst, <<>>, <<>>, EmptyObject)
    /\ last' = Event("newSession", "done", NullId, TRUE)
    /\ load' = LoadIdle
    /\ chat' = CountedAnew(chat)
    /\ UNCHANGED <<list, loads>>
    /\ UNCHANGED <<componentVars, del>>

\* DatabaseService.deleteNotebook, database.js lines 124-134.
DeletedFrom(st, notebookId) == [st EXCEPT ![notebookId].exists = FALSE]

\* Lines 737-743.
DeletedCurrentCleared(a) ==
    [a EXCEPT !.leftEntries = <<>>,
              !.rightEntries = <<>>,
              !.conversationHistory = <<>>,
              !.currentSessionId = NullId]

\* The delete button of a listed notebook, line 1244, confirmed (line 729):
\* deleteNotebook up to its first await, line 734.
DeleteStart(notebookId) ==
    /\ del.pc = "idle"
    /\ app.showNotebooksList /\ ~app.isLoadingNotebooks /\ ~app.isLoadingSession
    /\ notebookId \in app.availableNotebooks
    /\ del' = [pc |-> "awaitDelete", notebookId |-> notebookId,
               before |-> Snapshot(app, SYNONYMS_CACHE)]
    /\ last' = Event("deleteNotebook", "called", notebookId, FALSE)
    /\ UNCHANGED <<app, SYNONYMS_CACHE, inst, store, load, list, loads>>
    /\ UNCHANGED <<componentVars, chat>>

\* The delete button of a listed notebook, not confirmed (lines 729-731).
DeleteCancel(notebookId) ==
    /\ del.pc = "idle"
    /\ app.showNotebooksList /\ ~app.isLoadingNotebooks /\ ~app.isLoadingSession
    /\ notebookId \in app.availableNotebooks
    /\ last' = Event("deleteNotebook", "cancelled", notebookId, FALSE)
    /\ UNCHANGED <<app, SYNONYMS_CACHE, inst, store, load, list, loads, del>>
    /\ UNCHANGED <<componentVars, chat>>

\* DatabaseService.deleteNotebook returns or throws, lines 734-748 and 750-753.
DeleteDone ==
    /\ del.pc = "awaitDelete"
    /\ \E ok \in BOOLEAN :
          IF ~ok
          THEN /\ del' = DelIdle
               /\ last' = Event("deleteNotebook", "alert", del.notebookId, FALSE)
               /\ UNCHANGED <<app, SYNONYMS_CACHE, inst, store>>
          ELSE /\ store' = DeletedFrom(store, del.notebookId)
               /\ del' = [del EXCEPT !.pc = "awaitRefresh"]
               /\ IF del.notebookId = del.before.currentSessionId
                  THEN /\ app' = DeletedCurrentCleared(app)
                       /\ SYNONYMS_CACHE' = EmptyObject
                       /\ inst' = Reconcile(inst, <<>>, <<>>, EmptyObject)
                       /\ last' = Event("deleteNotebook", "deleted", del.notebookId, TRUE)
                  ELSE /\ last' = Event("deleteNotebook", "deleted", del.notebookId, FALSE)
                       /\ UNCHANGED <<app, SYNONYMS_CACHE, inst>>
    /\ UNCHANGED <<load, list, loads>>
    /\ UNCHANGED <<componentVars, chat>>

\* getAllNotebooks returns or throws, lines 747-753.
DeleteRefreshDone ==
    /\ del.pc = "awaitRefresh"
    /\ del' = DelIdle
    /\ \E ok \in BOOLEAN :
          /\ app' = IF ok
                    THEN [app EXCEPT !.availableNotebooks =
                                        {id \in DOMAIN store : store[id].exists}]
                    ELSE app
          /\ last' = Event("deleteNotebook", IF ok THEN "done" ELSE "alert",
                           del.notebookId, FALSE)
    /\ UNCHANGED <<SYNONYMS_CACHE, inst, store, load, list, loads>>
    /\ UNCHANGED <<componentVars, chat>>

Init ==
    /\ ComponentsIdle
    /\ AppIdle

Next ==
    \/ ListStart
    \/ ListDone
    \/ SaveConfirmedExpires
    \/ \E sessionId \in DOMAIN store : LoadStart(sessionId)
    \/ LoadTitleDone
    \/ LoadUpdateDone
    \/ LoadGetDone
    \/ \E i \in InstIds : LookupResolve(i)

Spec == Init /\ [][Next]_vars

\* The session operations with the "New Session" button.
NextNewSession ==
    \/ Next
    \/ NewSessionStart
    \/ NewSessionUpdateDone

SpecNewSession == Init /\ [][NextNewSession]_vars

\* The application up to its calls of deleteNotebook: each call is followed
\* from its start to its end, and nothing but another deleteNotebook comes
\* after it.
NextDelete ==
    \/ last.op # "deleteNotebook" /\ Next
    \/ \E notebookId \in DOMAIN store : DeleteStart(notebookId)
    \/ DeleteDone
    \/ DeleteRefreshDone

SpecDelete == Init /\ [][NextDelete]_vars

\* The notebooks list with its load and delete buttons, a load and a delete
\* running together included, for as long as no synonym lookup has come
\* back.
NextDeleteLoad ==
    \/ ListStart
    \/ ListDone
    \/ \E sessionId \in DOMAIN store : LoadStart(sessionId)
    \/ LoadTitleDone
    \/ LoadUpdateDone
    \/ LoadGetDone
    \/ \E notebookId \in DOMAIN store : DeleteCancel(notebookId)
    \/ \E notebookId \in DOMAIN store : DeleteStart(notebookId)
    \/ DeleteDone
    \/ DeleteRefreshDone

SpecDeleteLoad == Init /\ [][NextDeleteLoad]_vars

-----------------------------------------------------------------------------
(* handleSubmit, App.js lines 823-896, with createNewSession (758-784),    *)
(* chatWithChild (custom.js 38-83) and getImprovedSentence (App.js 35-53)  *)

MaxSubmits == 1

MaxCreateCalls == 2

\* What the user types before submitting.
SubmitTexts == {"So sad.", " Why? "}

\* What the chat service answers.
ChatReplies == {" Why?", "So sad."}

\* The ids that saveNotebookSession gives the documents it adds (addDoc
\* never gives an id twice).
CreatedSessionIds == <<"s4", "s5", "s6", "s7">>

CreatedSessionId(st) ==
    CreatedSessionIds[Cardinality(DOMAIN st) - Cardinality(SessionIds) + 1]

\* Date.now() at the n-th entry of a notebook.
DateNow(n) == 100 + 10 * n

\* DatabaseService.saveNotebookSession, database.js lines 166-181, for the
\* sessionData of App.js lines 767-772: a document without vocabularyData.
SavedNotebookSession(st) ==
    [id \in DOMAIN st \cup {CreatedSessionId(st)} |->
        IF id \in DOMAIN st THEN st[id]
        ELSE [exists |-> TRUE, leftEntries |-> <<>>, rightEntries |-> <<>>,
              conversationHistory |-> <<>>, vocabularyData |-> Absent]]

\* Lines 851-856.
NewLeftEntry(userMessage, leftCount, n) ==
    Entry(DateNow(n), userMessage, DateOf(NowInstant), leftCount)

\* Lines 838-859: the state after the entry was posted.
EntryPosted(a, newLeftEntry) ==
    [a EXCEPT !.lastUserInput = newLeftEntry.text,
              !.isGeneratingImprovement = TRUE,
              !.leftEntries = Append(@, newLeftEntry),
              !.currentInput = "",
              !.isLoading = TRUE]

\* A handler that shows its reply twice.
ReplyShownTwice(a, newRightEntry) ==
    [a EXCEPT !.rightEntries = Append(Append(@, newRightEntry), newRightEntry),
              !.isLoading = FALSE]

\* setRightEntries of lines 877 and 887, and the finally block, line 889.
ReplyShown(a, newRightEntry) ==
    [a EXCEPT !.rightEntries = Append(@, newRightEntry),
              !.isLoading = FALSE]

\* The text of line 884.
FallbackText == "Sorry, I'm having trouble thinking right now. Can you try asking me something else?"

\* A call of handleSubmit that waits: what its closure holds (currentInput,
\* conversationHistory, leftEntries.length), the await it is at and, once it
\* has posted its entry, that entry and the session that was open then;
\* sinceReset tells that "New Session" was not pressed since it began.
Handler(pc, currentInput, a, newLeftEntry) ==
    [pc |-> pc, currentInput |-> currentInput,
     conversationHistory |-> a.conversationHistory,
     leftCount |-> Len(a.leftEntries),
     sessionId |-> a.currentSessionId,
     newLeftEntry |-> newLeftEntry,
     sinceReset |-> TRUE]

NoEntry == [id |-> 0, text |-> "", timestamp |-> Undefined, colorIndex |-> 0]

\* A sequence without its h-th element.
Without(seq, h) == SubSeq(seq, 1, h - 1) \o SubSeq(seq, h + 1, Len(seq))

AwaitingCreate == {h \in 1..Len(chat.handlers) : chat.handlers[h].pc = "awaitCreate"}
AwaitingChat == {h \in 1..Len(chat.handlers) : chat.handlers[h].pc = "awaitChat"}

\* The test of line 760, which makes createNewSession return without a call.
CreationSkipped(a) == a.sessionCreatedRef \/ a.currentSessionId # NullId

\* A submit that will return without posting; or fewer than n entries were
\* posted, no more than n calls of handleSubmit wait, and
\* saveNotebookSession was not called more than MaxCreateCalls times since
\* the last reset.
SubmitsLeft(n) ==
    IF app.currentSessionId = NullId /\ CreationSkipped(app) THEN TRUE
    ELSE /\ chat.posted < n /\ Len(chat.handlers) <= n
         /\ app.currentSessionId = NullId => chat.createCalls < MaxCreateCalls

\* Enter or the submit button (line 410) with currentInput typed:
\* handleSubmit up to its first await, which is createNewSession's (line
\* 774) when no session is open, else chatWithChild's (line 863); or to its
\* return at line 831 when createNewSession returned at line 762 with no id.
\* The notebooks list, while shown, covers the input (line 1095).
SubmitStart(currentInput) ==
    /\ ~app.showNotebooksList
    /\ Trim(currentInput) # "" /\ ~app.isLoading
    /\ IF app.currentSessionId = NullId /\ CreationSkipped(app)
       THEN /\ last' = Event("handleSubmit", "dropped", NullId, FALSE)
            /\ UNCHANGED <<app, inst, chat>>
       ELSE IF app.currentSessionId = NullId
       THEN /\ app' = [app EXCEPT !.sessionCreatedRef = TRUE]
            /\ chat' = [chat EXCEPT
                          !.handlers = Append(@, Handler("awaitCreate", currentInput,
                                                         app, NoEntry)),
                          !.createCalls = @ + 1]
            /\ last' = Event("handleSubmit", "called", NullId, FALSE)
            /\ UNCHANGED inst
       ELSE LET userMessage == Trim(currentInput)
                newLeftEntry == NewLeftEntry(userMessage, Len(app.leftEntries),
                                             Len(app.leftEntries))
            IN /\ app' = EntryPosted(app, newLeftEntry)
               /\ chat' = [chat EXCEPT
                             !.handlers = Append(@, Handler("awaitChat", currentInput,
                                                            app, newLeftEntry)),
                             !.improving = Append(@, userMessage),
                             !.posted = @ + 1]
               /\ inst' = Reconcile(inst, app'.leftEntries, app'.rightEntries,
                                    SYNONYMS_CACHE)
               /\ last' = Event("handleSubmit", "posted", app.currentSessionId, FALSE)
    /\ UNCHANGED <<SYNONYMS_CACHE, store, load, list, loads, del>>
    /\ UNCHANGED componentVars

\* saveNotebookSession returns the new id or throws, lines 774-783, and
\* handleSubmit goes on to chatWithChild (lines 829-863) or returns.
CreateDone(h) ==
    /\ h \in AwaitingCreate
    /\ \E ok \in BOOLEAN :
          IF ok
          THEN LET handler == chat.handlers[h]
                   userMessage == Trim(handler.currentInput)
                   sessionId == CreatedSessionId(store)
                   newLeftEntry == NewLeftEntry(userMessage, handler.leftCount,
                                                Len(app.leftEntries))
               IN /\ store' = SavedNotebookSession(store)
                  /\ app' = EntryPosted([app EXCEPT !.currentSessionId = sessionId],
                                        newLeftEntry)
                  /\ chat' = [chat EXCEPT
                                !.handlers[h] = [@ EXCEPT !.pc = "awaitChat",
                                                          !.sessionId = sessionId,
                                                          !.newLeftEntry = newLeftEntry],
                                !.improving = Append(@, userMessage),
                                !.posted = @ + 1]
                  /\ inst' = Reconcile(inst, app'.leftEntries, app'.rightEntries,
                                       SYNONYMS_CACHE)
                  /\ last' = Event("handleSubmit", "posted", sessionId, FALSE)
          ELSE /\ app' = [app EXCEPT !.sessionCreatedRef = FALSE]
               /\ chat' = [chat EXCEPT
                             !.handlers = Without(@, h),
                             !.createFailed = IF chat.handlers[h].sinceReset
                                              THEN @ + 1 ELSE @]
               /\ last' = Event("handleSubmit", "noSession", NullId, FALSE)
               /\ UNCHANGED <<inst, store>>
    /\ UNCHANGED <<SYNONYMS_CACHE, load, list, loads, del>>
    /\ UNCHANGED componentVars

\* chatWithChild returns its reply or throws, lines 863-895.
ChatDone(h) ==
    /\ h \in AwaitingChat
    /\ \E ok \in BOOLEAN, aiResponse \in ChatReplies :
          LET handler == chat.handlers[h]
              response == IF ok THEN Trim(aiResponse) ELSE FallbackText
              newRightEntry == Entry(DateNow(Len(app.rightEntries)) + 1, response,
                                     DateOf(NowInstant), handler.newLeftEntry.colorIndex)
              updatedHistory ==
                  handler.conversationHistory
                      \o <<[role |-> "user", message |-> Trim(handler.currentInput)],
                           [role |-> "assistant", message |-> response]>>
              shown == ReplyShown(app, newRightEntry)
          IN /\ app' = IF ok THEN [shown EXCEPT !.conversationHistory = updatedHistory]
                       ELSE shown
             /\ last' = Event("handleSubmit", IF ok THEN "replied" ELSE "fallback",
                              handler.sessionId, FALSE)
    /\ chat' = [chat EXCEPT !.handlers = Without(@, h)]
    /\ inst' = Reconcile(inst, app'.leftEntries, app'.rightEntries, SYNONYMS_CACHE)
    /\ UNCHANGED <<SYNONYMS_CACHE, store, load, list, loads, del>>
    /\ UNCHANGED componentVars

\* What generateText answers to the improvement prompt of a sentence: a
\* rewrite of that sentence, an empty text, or an error.
ImprovementOutcomes(originalSentence) ==
    {Returned(StringOf(" Better: " \o originalSentence \o " ")),
     Returned(StringOf("")), Returned(Undefined), Thrown}

\* getImprovedSentence, lines 35-53, given the outcome of generateText.
getImprovedSentence(outcome, originalSentence) ==
    IF ~outcome.threw /\ outcome.value.t = "string" /\ Trim(outcome.value.v) # ""
    THEN Trim(outcome.value.v)
    ELSE originalSentence

\* getImprovedSentence resolves for one of the sentences it was called
\* with, and the callback of lines 842-845 runs.
ImproveDone ==
    /\ \E n \in 1..Len(chat.improving) :
       \E outcome \in ImprovementOutcomes(chat.improving[n]) :
          /\ app' = [app EXCEPT !.improvedSentence =
                                    getImprovedSentence(outcome, chat.improving[n]),
                                !.isGeneratingImprovement = FALSE]
          /\ chat' = [chat EXCEPT !.improving = Without(@, n)]
    /\ UNCHANGED <<SYNONYMS_CACHE, inst, store, load, list, loads, del, last>>
    /\ UNCHANGED componentVars

NextChat ==
    \/ SubmitsLeft(MaxSubmits) /\ \E currentInput \in SubmitTexts : SubmitStart(currentInput)
    \/ \E h \in 1..Len(chat.handlers) : CreateDone(h)
    \/ \E h \in 1..Len(chat.handlers) : ChatDone(h)
    \/ ImproveDone
    \/ \E i \in InstIds : LookupResolve(i)

SpecChat == Init /\ [][NextChat]_vars

\* Submits, sentence improvements and the "New Session" button, for as
\* long as no synonym lookup has come back.
NextSession ==
    \/ SubmitsLeft(MaxSubmits) /\ \E currentInput \in SubmitTexts : SubmitStart(currentInput)
    \/ \E h \in 1..Len(chat.handlers) : CreateDone(h)
    \/ \E h \in 1..Len(chat.handlers) : ChatDone(h)
    \/ ImproveDone
    \/ NewSessionStart
    \/ LoadTitleDone
    \/ NewSessionUpdateDone

SpecSession == Init /\ [][NextSession]_vars

\* A session that was created and never saved: the document that
\* saveNotebookSession wrote (database.js lines 166-181).
UnsavedSessionId == "s0"

InitSave ==
    /\ ComponentsIdle
    /\ app = AppStart
    /\ SYNONYMS_CACHE = EmptyObject
    /\ inst = [i \in InstIds |-> FreeInst]
    /\ store = [id \in SessionIds \cup {UnsavedSessionId} |->
                   IF id \in SessionIds THEN InitialStore[id]
                   ELSE [exists |-> TRUE, leftEntries |-> <<>>, rightEntries |-> <<>>,
                         conversationHistory |-> <<>>, vocabularyData |-> Absent]]
    /\ load = LoadIdle
    /\ list = ListIdle
    /\ loads = 0
    /\ last = NoEventYet
    /\ del = DelIdle
    /\ chat = ChatIdle

\* The save button with the session operations, for as long as no synonym
\* lookup has come back.
NextSave ==
    \/ SaveClick
    \/ SaveUpdateDone
    \/ SaveConfirmedExpires
    \/ ListStart
    \/ ListDone
    \/ ListClose
    \/ \E sessionId \in DOMAIN store : LoadStart(sessionId)
    \/ LoadTitleDone
    \/ LoadUpdateDone
    \/ LoadGetDone
    \/ NewSessionStart
    \/ NewSessionUpdateDone

SpecSave == InitSave /\ [][NextSave]_vars

\* Submits, the notebooks list and its delete buttons, for as long as no
\* synonym lookup and no sentence improvement has come back.
NextSubmitDelete ==
    \/ SubmitsLeft(MaxSubmits) /\ \E currentInput \in SubmitTexts : SubmitStart(currentInput)
    \/ \E h \in 1..Len(chat.handlers) : CreateDone(h)
    \/ \E h \in 1..Len(chat.handlers) : ChatDone(h)
    \/ ListStart
    \/ ListDone
    \/ ListClose
    \/ \E notebookId \in DOMAIN store : DeleteStart(notebookId)
    \/ DeleteDone
    \/ DeleteRefreshDone

SpecSubmitDelete == Init /\ [][NextSubmitDelete]_vars

Mounted == {i \in InstIds : inst[i].status = "mounted"}
InFlight == {i \in InstIds : inst[i].lookups > 0}

\* C1: lookups for byte-identical sentence text that are in flight together
\* are served by one call of the provider, so no two instances wait for the
\* provider with the same text.
C1_OneCallPerText ==
    \A i, j \in InFlight : inst[i].text = inst[j].text => i = j

\* The tokens SynonymText shows for instance i.
ShownTokens(i) ==
    renderLines(inst[i].text, inst[i].enableSynonyms, inst[i].sentenceSynonyms)

\* C2: in every state of a mounted SynonymText, a word token is interactive
\* if and only if its normalized form is a key of the map the instance holds
\* and enableSynonyms is true; whitespace tokens are never interactive.
C2_InteractiveIffKey ==
    \A i \in Mounted :
        LET tokens == ShownTokens(i)
        IN \A n \in 1..Len(tokens) :
              tokens[n].interactive <=>
                  /\ inst[i].enableSynonyms
                  /\ Trim(tokens[n].text) # ""
                  /\ CleanWordRender(tokens[n].text) \in DOMAIN inst[i].sentenceSynonyms

\* C3: once an instance is unmounted with its lookup in flight, no step (the
\* resolution of the lookup included) writes its state or its ref.
C3_DestroyedNotWritten ==
    [][\A i \in InstIds :
          inst[i].status = "destroyed" /\ inst[i].lookups > 0
              => /\ inst'[i].sentenceSynonyms = inst[i].sentenceSynonyms
                 /\ inst'[i].isLoadingRef = inst[i].isLoadingRef]_vars

\* C8: a map that a lookup stored for a key stays the map that later lookups
\* of that key get for as long as the cache is not cleared: no step other
\* than a clear removes or replaces what a lookup has stored.
C8_CachedMapStays ==
    [][\A k \in last.stored :
          \/ last'.cleared
          \/ k \in DOMAIN SYNONYMS_CACHE' /\ SYNONYMS_CACHE'[k] = SYNONYMS_CACHE[k]]_vars

\* C9: every key of SYNONYMS_CACHE, written by a lookup or restored from a
\* saved session, satisfies k = lowercase(trim(k)).
C9_KeysNormalized ==
    \A k \in DOMAIN SYNONYMS_CACHE : k = ToLowerCase(Trim(k))

\* A restored key and a key written by the lookup of "A constructor." are in
\* the cache together.
C9_Witness ==
    /\ {"so sad.", "a constructor."} \subseteq DOMAIN SYNONYMS_CACHE
    /\ \E i \in Mounted : inst[i].text = "A constructor." /\ inst[i].lookups = 0

\* C10: immediately after loadSession succeeds for a session stored with
\* vocabularyData V, the cache holds exactly V.
C10_CacheIsStoredVocabulary ==
    (/\ last.op = "loadSession"
     /\ last.result = "loaded"
     /\ store[last.sessionId].vocabularyData.present)
        => SYNONYMS_CACHE = store[last.sessionId].vocabularyData.map

\* s2 has just been loaded over s1, which was saved on the way with another
\* map for the key that s2's vocabulary holds.
C10_Witness ==
    /\ last.op = "loadSession" /\ last.result = "loaded" /\ last.sessionId = "s2"
    /\ store["s1"].vocabularyData.map = [k \in {"so sad."} |-> NullValuedSynonyms]
    /\ store["s2"].vocabularyData.map = [k \in {"so sad."} |-> SoSadSynonyms]
    /\ SYNONYMS_CACHE = store["s2"].vocabularyData.map

\* C11: right after loadSession succeeds or "New Session" ends, the cache
\* holds nothing of the session that was open before: only what the loaded
\* session was stored with (nothing, when it was stored without
\* vocabularyData), and nothing at all after "New Session".
C11_CacheClearedOnSwitch ==
    /\ (last.op = "loadSession" /\ last.result = "loaded")
          => DOMAIN SYNONYMS_CACHE \subseteq DOMAIN store[last.sessionId].vocabularyData.map
    /\ (last.op = "newSession" /\ last.result = "done")
          => SYNONYMS_CACHE = EmptyObject

\* C12: a deleteNotebook that ends with its alert (the delete or the list
\* refresh failed) leaves the notebooks, the history, the session id, the
\* cache and the notebook list as they were when it was called.
C12_FailedDeleteChangesNothing ==
    [][(del.pc # "idle" /\ del'.pc = "idle" /\ last'.result = "alert")
          => Snapshot(app', SYNONYMS_CACHE') = del.before]_vars

\* C13: no step of loadSession other than its successful end changes the
\* notebooks, the history, the session id or the cache, and a loadSession
\* whose getNotebook threw or returned null ends with the alert and with
\* isLoadingSession false.
C13_FailedLoadChangesNothing ==
    [][(load' # load /\ last'.result # "loaded")
          => /\ app'.leftEntries = app.leftEntries
             /\ app'.rightEntries = app.rightEntries
             /\ app'.conversationHistory = app.conversationHistory
             /\ app'.currentSessionId = app.currentSessionId
             /\ SYNONYMS_CACHE' = SYNONYMS_CACHE
             /\ (load.pc = "awaitGet" => last'.result = "alert" /\ ~app'.isLoadingSession)]_vars

\* A load has just failed over an open session with entries, history and a
\* non-empty cache.
C13_Witness ==
    /\ last.op = "loadSession" /\ last.result = "alert"
    /\ app.currentSessionId = "s1" /\ app.leftEntries # <<>>
    /\ app.conversationHistory # <<>>
    /\ SYNONYMS_CACHE # EmptyObject
    /\ ~app.isLoadingSession

\* C14: after loadSession succeeded, the notebooks hold every stored entry,
\* in order; an entry stored with an ISO timestamp shows that instant, and
\* an entry whose timestamp is missing or is no date shows the current time.
C14_TimestampsSurviveLoad ==
    (last.op = "loadSession" /\ last.result = "loaded")
        => LET sessionData == store[last.sessionId]
               Loaded(stored, shown) ==
                   /\ Len(shown) = Len(stored)
                   /\ \A n \in 1..Len(stored) :
                         /\ shown[n].id = stored[n].id
                         /\ shown[n].text = stored[n].text
                         /\ shown[n].timestamp =
                               IF stored[n].timestamp \in {StringOf(SavedInstant),
                                                           StringOf(NowInstant)}
                               THEN DateOf(stored[n].timestamp.v)
                               ELSE DateOf(NowInstant)
           IN /\ Loaded(sessionData.leftEntries, app.leftEntries)
              /\ Loaded(sessionData.rightEntries, app.rightEntries)

\* s3, whose entry has no timestamp, has just been loaded over s2, whose
\* entry with the timestamp "yesterday" was shown with the current time and
\* saved with it on the way.
C14_Witness ==
    /\ last.op = "loadSession" /\ last.result = "loaded" /\ last.sessionId = "s3"
    /\ store["s3"].leftEntries[1].timestamp = Undefined
    /\ app.leftEntries[1].timestamp = DateOf(NowInstant)
    /\ store["s2"].leftEntries[1].timestamp = StringOf(NowInstant)
    /\ store["s2"].leftEntries[2].timestamp = StringOf(SavedInstant)

\* C15: a loadSession that saved the open session and then loaded that same
\* session back restores what was there when it was saved: the entries of
\* both notebooks (id, text, colour, instant), the history, and the cache.
C15_SaveLoadRoundTrip ==
    [][(/\ load.pc = "awaitGet" /\ load.saved
        /\ load.sessionData.id = load.sessionId
        /\ last'.result = "loaded")
          => /\ app'.leftEntries = load.atSave.leftEntries
             /\ app'.rightEntries = load.atSave.rightEntries
             /\ app'.conversationHistory = load.atSave.conversationHistory
             /\ SYNONYMS_CACHE' = load.atSave.cache]_vars

\* C16: an instance of the right notebook never has a lookup in flight and
\* never holds a map, none of its tokens is interactive, and handleWordHover
\* on any of its tokens leaves the hover state as it is, even with a map of
\* the cache: whatever its text and whatever the cache holds.
C16_RightNotebookPlain ==
    \A i \in InstIds :
        (inst[i].status # "free" /\ ~inst[i].showInput)
            => /\ inst[i].lookups = 0 /\ ~inst[i].isLoadingRef
               /\ inst[i].sentenceSynonyms = EmptyObject
               /\ LET tokens == ShownTokens(i)
                  IN \A n \in 1..Len(tokens) :
                        /\ ~tokens[n].interactive
                        /\ \A k \in DOMAIN SYNONYMS_CACHE :
                              handleWordHover(NoHover, inst[i].enableSynonyms,
                                              SYNONYMS_CACHE[k], NoEvent,
                                              tokens[n].text) = NoHover

\* The reply "So sad." is on screen in the right notebook while the cache
\* holds a map for its key.
C16_Witness ==
    /\ CacheKey("So sad.") \in DOMAIN SYNONYMS_CACHE
    /\ \E i \in Mounted : ~inst[i].showInput /\ inst[i].text = "So sad."

\* C17: every map stored in the cache or held by an instance maps
\* lower-case words without punctuation to lists of one to five synonyms:
\* no value that is not a list, no empty list, no key that is not normalized.
C17_MapsWellFormed ==
    LET WellFormed(m) ==
            \A w \in DOMAIN m :
                /\ w = ToLowerCase(StripPunct(w))
                /\ m[w].t = "array"
                /\ Len(m[w].v) \in 1..5
    IN /\ \A k \in DOMAIN SYNONYMS_CACHE : WellFormed(SYNONYMS_CACHE[k])
       /\ \A i \in Mounted : WellFormed(inst[i].sentenceSynonyms)

\* C18: the step that resolves an instance's lookup resets its in-flight
\* flag, and when the lookup found nothing or failed it leaves a mounted
\* instance with an empty map and without an interactive word.
C18_ResolvedLeavesLoading ==
    [][\A i \in InstIds :
          inst'[i].lookups < inst[i].lookups
              => /\ ~inst'[i].isLoadingRef
                 /\ (/\ last'.result = "empty"
                     /\ inst[i].status = "mounted" /\ inst'[i].status = "mounted"
                     /\ inst'[i].entryId = inst[i].entryId)
                       => /\ inst'[i].sentenceSynonyms = EmptyObject
                          /\ InteractiveWords(inst'[i].text, inst'[i].enableSynonyms,
                                              inst'[i].sentenceSynonyms) = {}]_vars

\* C19: an instance never has more than one lookup outstanding: its flag is
\* set exactly while its one lookup is in flight, and an effect that runs
\* again meanwhile starts no other.
C19_OneLookupPerInstance ==
    \A i \in InstIds : inst[i].lookups = IF inst[i].isLoadingRef THEN 1 ELSE 0

\* A mounted instance, whose effect has run twice, waits for its lookup.
C19_Witness ==
    \E i \in Mounted : inst[i].isLoadingRef /\ inst[i].lookups = 1

\* C20: once the reply and the lookups of the submitted entries have all
\* come back, in whichever order, the state is the same: one reply in the
\* right notebook for each entry of the left one, in the entry's colour,
\* isLoading reset, and each left entry's instance out of its lookup with
\* the map that the cache holds for the entry's key (for a key that no other
\* entry shares), or with an empty map and nothing cached when nothing was
\* found.
C20_SameFinalState ==
    (chat.handlers = <<>> /\ \A i \in Mounted : inst[i].lookups = 0)
        => /\ Len(app.rightEntries) = Len(app.leftEntries)
           /\ ~app.isLoading
           /\ \A n \in 1..Len(app.leftEntries) :
                 LET entry == app.leftEntries[n]
                     key == CacheKey(entry.text)
                     sameKey == {m \in 1..Len(app.leftEntries) :
                                    CacheKey(app.leftEntries[m].text) = key}
                 IN /\ app.rightEntries[n].colorIndex = entry.colorIndex
                    /\ \E i \in Mounted :
                          /\ inst[i].showInput /\ inst[i].entryId = entry.id
                          /\ ~inst[i].isLoadingRef
                          /\ sameKey = {n} =>
                                IF inst[i].sentenceSynonyms = EmptyObject
                                THEN key \notin DOMAIN SYNONYMS_CACHE
                                ELSE /\ key \in DOMAIN SYNONYMS_CACHE
                                     /\ SYNONYMS_CACHE[key] = inst[i].sentenceSynonyms

\* An entry was submitted and everything has come back, the reply last,
\* after the map of the entry's lookup: the map is applied and cached and
\* the entry has its reply.
C20_Witness ==
    /\ chat.handlers = <<>> /\ \A i \in Mounted : inst[i].lookups = 0
    /\ last.op = "handleSubmit" /\ last.result = "replied"
    /\ Len(app.leftEntries) = 1 /\ Len(app.rightEntries) = 1
    /\ app.leftEntries[1].text = "So sad."
    /\ SYNONYMS_CACHE = [k \in {"so sad."} |-> SoSadSynonyms]
    /\ \E i \in Mounted : inst[i].showInput /\ inst[i].sentenceSynonyms = SoSadSynonyms

\* C21: pointer-enter and pointer-leave on a word issue no external call and
\* change neither the cache nor the map of the instance; a pointer-enter on a
\* word the renderer made interactive sets hoveredWord to the normalized word
\* and the active list to the list of that word in the map, and a
\* pointer-leave sets hoveredWord to none and the active list to empty.
C21_HoverIsLocal ==
    [][/\ adapter' = adapter
       /\ SYNONYMS_CACHE' = SYNONYMS_CACHE
       /\ inst' = inst
       /\ hover'.sentenceSynonyms = hover.sentenceSynonyms
       /\ IF hover.st.hoveredWord.t = "null"
          THEN LET cleanWord == CleanWordRender(hover'.word)
               IN /\ cleanWord \in DOMAIN hover.sentenceSynonyms
                  /\ hover'.st.hoveredWord = StringOf(cleanWord)
                  /\ hover'.st.synonyms = hover.sentenceSynonyms[cleanWord]
          ELSE /\ hover'.st.hoveredWord = Null
               /\ hover'.st.synonyms = ArrayOf(<<>>)]_vars

\* The pointer was on "sad," (three synonyms shown) and has left it.
C21_Witness ==
    /\ hover.word = "sad,"
    /\ hover.st.hoveredWord = Null
    /\ hover.st.synonyms = ArrayOf(<<>>)
    /\ hover.st.tooltipPosition.x # 0

\* C22: between two resets (the start of the application or "New Session")
\* createNewSession issues at most one session-create call to the store, for
\* every interleaving of submits; a call that failed, after which the guard
\* is open again, is not counted.
C22_OneCreatePerReset == chat.createCalls <= chat.createFailed + 1

\* C23: a submit with non-blank input, made while no chat request is in
\* flight and no session-create call is pending, is never dropped: its entry
\* is appended to the left notebook, after a session was created when none is
\* current.
C23_NoSubmitDropped ==
    ~(/\ last.op = "handleSubmit" /\ last.result = "dropped"
      /\ ~app.isLoading
      /\ chat.handlers = <<>>)

\* C24: a chat reply that comes back after the session it was requested in
\* was switched or reset (loadSession, "New Session") is not applied: it
\* changes neither the right notebook nor the conversation history of the
\* session that is open now.
C24_LateReplyNotApplied ==
    [][(/\ Len(chat'.handlers) < Len(chat.handlers)
        /\ last'.op = "handleSubmit" /\ last'.result \in {"replied", "fallback"}
        /\ last'.sessionId # app.currentSessionId)
          => /\ app'.rightEntries = app.rightEntries
             /\ app'.conversationHistory = app.conversationHistory]_vars

\* C25: a synonym lookup whose instance was taken off the screen by a
\* switch of session (loadSession, "New Session", deletion of the open
\* session) before it resolved does not write its result into the cache.
C25_LateLookupNotCached ==
    [][\A i \in InstIds :
          (/\ inst[i].status = "destroyed" /\ inst[i].lookups > 0
           /\ last'.op = "lookup"
           /\ inst'[i].lookups < inst[i].lookups)
             => SYNONYMS_CACHE' = SYNONYMS_CACHE]_vars

\* C26: when loadSession or "New Session" replaces or clears the notebooks of
\* a session that had entries, the updateNotebook call made for that session
\* has succeeded: the store holds the session as it was in memory.
C26_SavedBeforeDiscarded ==
    [][(/\ load.atSave # NoSnapshot
        /\ \/ last'.op = "loadSession" /\ last'.result = "loaded"
           \/ last'.op = "newSession" /\ last'.result = "done")
          => LET stored == store'[load.sessionData.id]
             IN /\ stored.exists
                /\ stored.leftEntries = load.sessionData.leftEntries
                /\ stored.rightEntries = load.sessionData.rightEntries
                /\ stored.conversationHistory = load.sessionData.conversationHistory
                /\ stored.vocabularyData = Present(load.sessionData.vocabularyData)]_vars

\* C27: whenever isGeneratingImprovement is false and improvedSentence is not
\* empty, improvedSentence is a result of getImprovedSentence for the current
\* lastUserInput: the service's rewrite of it, or lastUserInput itself.
C27_ImprovementOfLastInput ==
    (~app.isGeneratingImprovement /\ app.improvedSentence # "")
        => \E outcome \in ImprovementOutcomes(app.lastUserInput) :
              app.improvedSentence = getImprovedSentence(outcome, app.lastUserInput)

\* C28: saveCurrentSessionWithRetry calls updateNotebook (or asks for a
\* title before it) only for a current session id and a notebook that is not
\* empty; called without a session id, or with both notebooks empty, it
\* returns without changing isSaving, saveConfirmed or the store.
C28_SaveGuards ==
    [][/\ load'.pc \in {"awaitTitle", "awaitUpdate"}
          => /\ load'.sessionData.id # NullId
             /\ load'.sessionData.leftEntries # <<>> \/ load'.sessionData.rightEntries # <<>>
       /\ (/\ last' # last /\ last'.op = "save" /\ last'.result \in {"called", "skipped"}
           /\ \/ app.currentSessionId = NullId
              \/ app.leftEntries = <<>> /\ app.rightEntries = <<>>)
             => /\ last'.result = "skipped"
                /\ load' = load
                /\ app'.isSaving = app.isSaving
                /\ app'.saveConfirmed = app.saveConfirmed
                /\ store' = store]_vars

\* The save button was pressed with a session open whose notebooks are both
\* empty, while the confirmation of an earlier save was still shown.
C28_Witness ==
    /\ last.op = "save" /\ last.result = "skipped"
    /\ last.sessionId = UnsavedSessionId
    /\ app.currentSessionId = UnsavedSessionId
    /\ app.leftEntries = <<>> /\ app.rightEntries = <<>>
    /\ app.saveConfirmed

\* C29: every chat request that comes back appends exactly one entry to the
\* right notebook, with the colorIndex of the left entry it answers, and
\* clears isLoading: the reply, with the history extended by the pair of the
\* user's message and the reply, or the fallback text with the history
\* unchanged; and at most one chat request is in flight at any time.
C29_OneReplyPerRequest ==
    [][/\ Cardinality(AwaitingChat) <= 1
       /\ (/\ Len(chat'.handlers) < Len(chat.handlers)
           /\ last'.op = "handleSubmit" /\ last'.result \in {"replied", "fallback"})
             => /\ Len(app'.rightEntries) = Len(app.rightEntries) + 1
                /\ SubSeq(app'.rightEntries, 1, Len(app.rightEntries)) = app.rightEntries
                /\ ~app'.isLoading
                /\ LET newRightEntry == app'.rightEntries[Len(app'.rightEntries)]
                   IN /\ \E h \in AwaitingChat :
                            /\ chat'.handlers = Without(chat.handlers, h)
                            /\ newRightEntry.colorIndex = chat.handlers[h].newLeftEntry.colorIndex
                            /\ IF last'.result = "fallback"
                               THEN /\ newRightEntry.text = FallbackText
                                    /\ app'.conversationHistory = app.conversationHistory
                               ELSE app'.conversationHistory =
                                       app.conversationHistory
                                          \o <<[role |-> "user",
                                                message |-> chat.handlers[h].newLeftEntry.text],
                                               [role |-> "assistant",
                                                message |-> newRightEntry.text]>>]_vars

\* C30: deleteNotebook does nothing when the user does not confirm; a
\* confirmed delete of a notebook that is not the open session leaves the
\* notebooks, the history, the session id and the cache as they are; a
\* confirmed delete of the open session empties the notebooks and the
\* history, sets the session id to null and clears the cache.
C30_DeleteFrame ==
    [][/\ (last' # last /\ last'.op = "deleteNotebook" /\ last'.result = "cancelled")
             => UNCHANGED <<app, SYNONYMS_CACHE, inst, store, del>>
       /\ (del.pc = "awaitDelete" /\ del'.pc = "awaitRefresh")
             => IF del.notebookId = app.currentSessionId
                THEN /\ app'.leftEntries = <<>> /\ app'.rightEntries = <<>>
                     /\ app'.conversationHistory = <<>>
                     /\ app'.currentSessionId = NullId
                     /\ SYNONYMS_CACHE' = EmptyObject
                ELSE Snapshot(app', SYNONYMS_CACHE') = Snapshot(app, SYNONYMS_CACHE)]_vars

-----------------------------------------------------------------------------
(* The tokenizer on every short text *)

MaxTextLen == 3

TokAlphabet == {"a", "B", ".", "?", " ", "\n", ","}

RECURSIVE StringsUpTo(_, _)
StringsUpTo(A, n) ==
    IF n = 0 THEN {""}
    ELSE LET shorter == StringsUpTo(A, n - 1)
         IN shorter \cup {s \o c : s \in shorter, c \in A}

InitTok ==
    /\ AppIdle
    /\ adapter = AdapterIdle
    /\ hover = HoverIdle
    /\ tok \in [text : StringsUpTo(TokAlphabet, MaxTextLen), tokens : {<<>>}, done : {FALSE}]

Tokenize ==
    /\ ~tok.done
    /\ tok' = [tok EXCEPT !.tokens = renderTextWithSynonyms(tok.text, FALSE, EmptyObject),
                          !.done = TRUE]
    /\ UNCHANGED <<adapter, hover>>
    /\ UNCHANGED appVars

NextTok == Tokenize

SpecTok == InitTok /\ [][NextTok]_vars

\* C7: the tokens produced for a text T, concatenated in order, are exactly T,
\* and the empty text produces no token with visible text.
C7_RoundTrip ==
    tok.done =>
        /\ ConcatAll(TokenTexts(tok.tokens)) = tok.text
        /\ (tok.text = "" => \A i \in 1..Len(tok.tokens) : tok.tokens[i].text = "")

\* A text with a delimiter run between two sentences, one of which has an
\* inner whitespace run, has been tokenized into more than three tokens.
C7_Witness ==
    /\ tok.done
    /\ Len(tok.tokens) > 3
    /\ \E i \in 1..Len(tok.tokens) : AllIn(tok.tokens[i].text, SentenceDelims)
    /\ \E i \in 1..Len(tok.tokens) : AllIn(tok.tokens[i].text, WhitespaceChars)

====
